---- MODULE Spec2Model ----
(***************************************************************************)
(* Model of the environment orchestrator:                                  *)
(*   - the store's locks, allocation markers, lifetime-use counters and    *)
(*     session records (worker_redis.py, RedisStateProvider),              *)
(*   - the environment pool: start_session, renew_session, end_session,    *)
(*     delete_container and the background reclamation sweep               *)
(*     (worker_docker.py, DockerEnvironmentController).                    *)
(* An await of a store or engine call that changes state, or whose reply   *)
(* the code branches on, is one step; code between two awaits runs without *)
(* interruption on the worker's event loop and is part of the step of the  *)
(* await that precedes it. Engine reads whose reply is not used for a      *)
(* decision (_load_container in delete_container) are part of the step     *)
(* that follows them, and the per-subtype lists of one sweep phase are one *)
(* step.                                                                   *)
(***************************************************************************)
EXTENDS Integers, Sequences, FiniteSets, TLC

\* ------------------------------------------------------------------ bounds
\* number of start_session calls (session ids handed out)
MaxSessions == 2
\* number of containers the engine creates
MaxContainers == 3
\* number of distinct owner tokens that call the lock scripts directly
NumTokens == 3
\* largest lock timeout (seconds, scaled to clock ticks) passed to acquire_lock
MaxTTL == 2

\* ------------------------------------------------------------- the store
VARIABLES
    locks,          \* lock key -> [holder, ttl]; holder NoToken when the key is absent
    ret,            \* what the last acquire_lock call returned
    lastCall        \* the last lock call: [op, name, token, ttl] and the lock keys before it

NoToken == 0
NoLock == [holder |-> NoToken, ttl |-> 0]
NoCall == [op |-> "none", name |-> "none", token |-> NoToken, ttl |-> 0, before |-> <<>>]

AllocationLock(subtype) == "allocation:" \o subtype
BackgroundLock == "background"
LockNames == {AllocationLock("web"), BackgroundLock}

Tokens == 1..NumTokens
TTLs == 1..MaxTTL

\* redis.call("set", KEYS[1], ARGV[1], "NX", "EX", ARGV[2]): sets the key only when it
\* is absent; the reply is truthy exactly then
SetNX(l, name) == l[name].holder = NoToken

\* ACQUIRE_LOCK_SCRIPT: the value the script returns
AcquireLockResult(l, name, token) ==
    IF SetNX(l, name) THEN TRUE
    ELSE IF l[name].holder = token THEN TRUE   \* "expire" on an existing key replies 1
    ELSE FALSE

\* ACQUIRE_LOCK_SCRIPT with a plain SET in place of SET NX: the caller takes the key over
AcquireLockScript_Overwrite(l, name, token, ttl) ==
    [l EXCEPT ![name] = [holder |-> token, ttl |-> ttl]]

\* ACQUIRE_LOCK_SCRIPT: the keys after the script
AcquireLockScript(l, name, token, ttl) ==
    IF SetNX(l, name) THEN [l EXCEPT ![name] = [holder |-> token, ttl |-> ttl]]
    ELSE IF l[name].holder = token THEN [l EXCEPT ![name].ttl = ttl]
    ELSE l

\* RELEASE_LOCK_SCRIPT without the comparison of the holder: a plain DEL
ReleaseLockScript_Unconditional(l, name, token) ==
    [l EXCEPT ![name] = NoLock]

\* RELEASE_LOCK_SCRIPT: the keys after the script
ReleaseLockScript(l, name, token) ==
    IF l[name].holder # NoToken /\ l[name].holder = token
    THEN [l EXCEPT ![name] = NoLock]
    ELSE l

\* the store drops a key whose time to live has run out
ExpireKey(l, name) == [l EXCEPT ![name] = NoLock]

\* lock keys set without a time to live (SET NX with no EX): they age but are never dropped
AgeLocks_NoExpiry(l) ==
    [n \in DOMAIN l |->
        IF l[n].holder = NoToken THEN NoLock
        ELSE IF l[n].ttl <= 1 THEN l[n]
        ELSE [l[n] EXCEPT !.ttl = l[n].ttl - 1]]

\* one second (scaled) passes: every lock key ages, a key at its last second is dropped
AgeLocks(l) ==
    [n \in DOMAIN l |->
        IF l[n].holder = NoToken THEN NoLock
        ELSE IF l[n].ttl <= 1 THEN NoLock
        ELSE [l[n] EXCEPT !.ttl = l[n].ttl - 1]]

\* acquire_lock(lock_name, client_id, timeout): one eval of ACQUIRE_LOCK_SCRIPT
acquire_lock(name, token, ttl) ==
    /\ locks' = AcquireLockScript(locks, name, token, ttl)
    /\ ret' = AcquireLockResult(locks, name, token)
    /\ lastCall' = [op |-> "acquire", name |-> name, token |-> token, ttl |-> ttl,
                    before |-> locks]

\* release_lock(lock_name, client_id): one eval of RELEASE_LOCK_SCRIPT
release_lock(name, token) ==
    /\ locks' = ReleaseLockScript(locks, name, token)
    /\ ret' = ret
    /\ lastCall' = [op |-> "release", name |-> name, token |-> token, ttl |-> 0,
                    before |-> locks]

\* a second passes in the store
Tick ==
    /\ \E n \in DOMAIN locks : locks[n].holder # NoToken
    /\ locks' = AgeLocks(locks)
    /\ ret' = ret
    /\ lastCall' = NoCall

\* --------------------------------------------------- the task delegation
Subtypes == {"web", "db"}

VARIABLES
    delegation      \* [reuse_limit, concurrency_limit]: what the task delegation answers

get_reuse_limit(st) == delegation.reuse_limit[st]
get_concurrency_limit(st) == delegation.concurrency_limit[st]

\* reuse_limit and concurrency_limit of the subtype "web" in the delegation explored
WebReuseLimit == 2
WebConcurrencyLimit == 2

Delegations ==
    { [reuse_limit |-> [web |-> WebReuseLimit, db |-> 1],
       concurrency_limit |-> [web |-> WebConcurrencyLimit, db |-> 0]] }

\* start_session arguments explored: (subtypes, immutable)
Requests ==
    { [subtypes |-> <<"web">>, immutable |-> TRUE],
      [subtypes |-> <<"web">>, immutable |-> FALSE] }

\* ------------------------------------------------ the engine and the store
VARIABLES
    labels,         \* engine: container id -> [subtype, exclusive], ids 1..Len(labels)
    alive,          \* engine: ids of the containers that exist
    unhealthy,      \* engine: ids of the containers whose health status is unhealthy
    starting,       \* engine: ids whose health status is starting (from creation on)
    marker,         \* store: <<container id, session id>> of the live allocation keys
    uses,           \* store: container id -> lifetime-use counter (0 when the key is absent)
    records         \* store: session id -> session record, NoRecord when absent

\* ------------------------------------------------------------ the workers
VARIABLES
    sess,           \* session id -> position and locals of its start_session / end_session
    bg              \* worker -> position and locals of its background_task

Sessions == 1..MaxSessions
Cids == 1..MaxContainers
\* number of worker processes running background_task
NumWorkers == 1
Workers == 1..NumWorkers
\* number of worker processes that share the store in the runs of background_task
\* alone; the first NumWorkers of them are the ones of the pool's runs
NumSweepers == 2
Sweepers == 1..NumSweepers

\* the store client's _client_id (a uuid4): never equal to a session id
ClientId(w) == MaxSessions + w

\* timeout of the allocation locks (acquire_lock's default) and of the background lock
LockTimeout == 10
BackgroundTimeout == 120

NoRecord == [present |-> FALSE, containers |-> {}, exclusive_containers |-> <<>>]

\* the arguments of a start_session call that has not been made
NoRequest == [subtypes |-> <<>>, immutable |-> TRUE]

IdleSess ==
    [pc |-> "idle", request |-> NoRequest, exclTodo |-> <<>>, sharedTodo |-> <<>>, identTodo |-> <<>>,
     cands |-> [st \in Subtypes |-> <<>>], scan |-> 0, selected |-> 0, cur |-> 0,
     allocated |-> {}, exclusive |-> <<>>, found |-> FALSE, endShared |-> <<>>,
     endExcl |-> <<>>, ends |-> 0, created |-> {}]

IdleBg == [pc |-> "sleep", phase |-> "none", todo |-> {}, cur |-> 0]

\* --------------------------------------------------------- the engine calls
VARIABLE
    engine_call     \* the engine call in progress: operation, attempts made, client resets

\* DockerEnvironmentController._retryable_docker_statuses and two statuses outside it
\* (no such image or container, conflict)
_retryable_docker_statuses == {500, 502, 503, 504, 900}
OtherStatuses == {404, 409}

Ok == [kind |-> "ok", status |-> 0]
DockerErrors == [kind : {"DockerError"}, status : _retryable_docker_statuses \cup OtherStatuses]
TransportErrors == {[kind |-> "ClientError", status |-> 0], [kind |-> "TimeoutError", status |-> 0]}
Outcomes == {Ok} \cup DockerErrors \cup TransportErrors

NoEngineCall ==
    [op |-> "none", via |-> "none", pc |-> "idle", attempt |-> 0, resets |-> 0, tried |-> <<>>]

\* ------------------------------------------------------------ the task worker
\* session ids the upstream passes to start_sample, the largest task.concurrency
\* explored and the number of cancel calls accepted for one session id
MaxSamples == 2
MaxConcurrency == 2
MaxCancels == 1

VARIABLES
    task,           \* the task's attributes read by the worker: concurrency, full_async
    session_map,    \* session id -> its RunningSampleData entry (present, cancelling)
    unit,           \* session id -> the asyncio task running task_start_sample_wrapper
    controller,     \* session id -> the session's controller (agent_lock, env_input, results)
    cancels,        \* session id -> the cancel_task coroutines of the accepted cancel calls
    notices,        \* session id -> number of /cancel_notice requests sent upstream
    lastRequest,    \* the last request decided by a handler: 200 when it passed the checks
    fanout,         \* the _cancel_all call: the session ids it listed and its _cancel calls
    earlier         \* session id -> the wrapper and the cancel_tasks of the sample that had
                    \* the id before the present one

SampleIds == 1..MaxSamples

workerVars ==
    <<task, session_map, unit, controller, cancels, notices, lastRequest, fanout, earlier>>

\* the values of task.concurrency and task.full_async explored
Tasks == [concurrency : 1..MaxConcurrency, full_async : BOOLEAN]

\* a session id that is not a key of session_map
NoEntry == [present |-> FALSE, cancelling |-> FALSE]

\* RunningSampleData.__init__: cancelling starts False
RunningSampleData == [present |-> TRUE, cancelling |-> FALSE]

\* the wrapper's task before create_task: pc is its position, must_cancel the
\* cancellation requested by Task.cancel() and not yet thrown into it, status the
\* status it is handing to env_finish
NoUnit == [pc |-> "none", must_cancel |-> FALSE, status |-> "none"]

\* Session(session_id): a controller with agent_lock free, no pull pending, no input
\* and no terminal result reported
NewController == [agent_lock |-> FALSE, pulls |-> 0, env_input |-> "none", finished |-> <<>>]

NoRequestYet == [op |-> "none", sid |-> 0, code |-> 0]

\* no _cancel_all call made
NoFanout ==
    [pc |-> "idle", with_notice |-> FALSE, sessions |-> {}, todo |-> {}, failed |-> FALSE]

\* a session id that no earlier sample had
NoEarlier == [unit |-> NoUnit, cancels |-> <<>>]

\* the worker before its first request
WorkerIdle ==
    /\ session_map = [sid \in SampleIds |-> NoEntry]
    /\ unit = [sid \in SampleIds |-> NoUnit]
    /\ controller = [sid \in SampleIds |-> NewController]
    /\ cancels = [sid \in SampleIds |-> <<>>]
    /\ notices = [sid \in SampleIds |-> 0]
    /\ lastRequest = NoRequestYet
    /\ fanout = NoFanout
    /\ earlier = [sid \in SampleIds |-> NoEarlier]

\* the runs of the environment controller alone: a worker that gets no request
WorkerAtRest ==
    /\ task = [concurrency |-> MaxConcurrency, full_async |-> FALSE]
    /\ WorkerIdle

\* ------------------------------------------------------------------ the agent
\* the largest config.max_iterations explored and the largest number of tool
\* calls in one response of the model
MaxIterations == 4
MaxToolCalls == 3

\* circuit breaker thresholds
MAX_CONSECUTIVE_FAILURES == 3
MAX_TOTAL_FAILURES == 5

VARIABLE
    agent           \* the Agent: its config, its AgentState and the position of run

\* AgentConfig: max_iterations is an int that nothing validates
AgentConfigs ==
    [max_iterations : -1..MaxIterations, confirm_all : BOOLEAN, circuit_breaker : BOOLEAN]

\* AgentState()
AgentState ==
    [iteration |-> 0, cancelled |-> FALSE, consecutive_failures |-> 0, total_failures |-> 0]

\* an Agent on which run has not been called; chats counts the calls of api.chat,
\* asked is whether every response so far carried tool calls
NewAgent(cfg) ==
    [config |-> cfg, state |-> AgentState, pc |-> "idle", needs_planning |-> FALSE,
     current_plan |-> FALSE, tool_calls |-> <<>>, chats |-> 0, asked |-> TRUE,
     result |-> "none"]

NoRun == NewAgent([max_iterations |-> 0, confirm_all |-> FALSE, circuit_breaker |-> TRUE])

\* ------------------------------------------------- the interactive shells
\* streams one controller opens, coroutines calling execute_shell at a time, and
\* resets of the engine client
MaxStreams == 3
MaxCallers == 2
MaxResets == 1

VARIABLES
    _shells,        \* self._shells: container id -> registered stream (0 when no key)
    streams,        \* stream id -> [env, state, client]: its container, and its connection
    _client,        \* the engine client in use, counted from 0; each reset drops one
    shell_call,     \* caller -> position of its execute_shell call
    reset,          \* _reset_client in progress: position of its loop over _shells
    deleting,       \* delete_container in progress: position and the recursion's stack
    depends_on      \* container id -> the ids named in its dependency label

shellVars == <<_shells, streams, _client, shell_call, reset, deleting, depends_on>>

StreamIds == 1..MaxStreams
Callers == 1..MaxCallers

NoStream == [env |-> 0, state |-> "none", client |-> 0]
NoShellCall == [pc |-> "idle", environment_id |-> 0, stream |-> 0, client |-> 0]
NoReset == [pc |-> "idle", size |-> 0, visited |-> {}, stream |-> 0, resets |-> 0, raised |-> FALSE]
NoDelete == [pc |-> "idle", stack |-> <<>>, gone |-> {}]

\* a controller that has opened no shell and is running none of these calls
ShellsAtRest ==
    /\ _shells = [c \in Cids |-> 0]
    /\ streams = [k \in StreamIds |-> NoStream]
    /\ _client = 0
    /\ shell_call = [a \in Callers |-> NoShellCall]
    /\ reset = NoReset
    /\ deleting = NoDelete
    /\ depends_on = [c \in Cids |-> {}]

vars == <<locks, ret, lastCall, delegation, labels, alive, unhealthy, starting, marker, uses,
          records, sess, bg, task, session_map, unit, controller, cancels, notices,
          lastRequest, fanout, engine_call, agent, _shells, streams, _client,
          shell_call, reset, deleting, depends_on, earlier>>

lockVars == <<locks, ret, lastCall>>
poolVars == <<delegation, labels, alive, unhealthy, starting, marker, uses, records, sess, bg,
              engine_call>>

\* ------------------------------------------------------- store operations
\* container_current_uses: COUNT_KEYS_SCRIPT over the container's allocation keys
container_current_uses(m, c) == Cardinality({p \in m : p[1] = c})

\* container_is_allocated
container_is_allocated(m, c) == container_current_uses(m, c) > 0

\* container_total_uses
container_total_uses(u, c) == u[c]

\* allocate_container, first call: client.set(allocation key, 1, ex=session_expiry)
SetMarker(m, c, s) == m \cup {<<c, s>>}

\* allocate_container, second call: client.incr(uses key)
IncrUses(u, c) == [u EXCEPT ![c] = @ + 1]

\* renew_container: client.expire(allocation key): refreshes a key that exists, creates none
renew_container(m, c, s) == m

\* release_container: client.delete(allocation key)
release_container(m, c, s) == m \ {<<c, s>>}

\* delete_session that leaves the session key in the store
delete_session_Kept(r, s) == r

\* delete_session: client.delete(session key)
delete_session(r, s) == [r EXCEPT ![s] = NoRecord]

\* remove_container: DELETE_KEYS_SCRIPT over every key of the container
RemoveMarkers(m, c) == {p \in m : p[1] # c}
RemoveUses(u, c) == [u EXCEPT ![c] = 0]

\* ------------------------------------------------------ engine operations
\* _identify_containers without the exclusive=false label in its filter
identify_containers_any(st) ==
    {c \in alive : labels[c].subtype = st /\ c \notin unhealthy}

\* _identify_containers: running, not unhealthy, labelled with the subtype and exclusive=false
identify_containers(st) ==
    {c \in alive : labels[c].subtype = st /\ ~labels[c].exclusive /\ c \notin unhealthy}

\* every order random.shuffle can leave a list of the set S in
Shuffles(S) ==
    {q \in [1..Cardinality(S) -> S] : \A i, j \in 1..Cardinality(S) : i # j => q[i] # q[j]}

\* the engine creates and starts a container with the given labels; its id is new
EngineCreate(st, excl) ==
    /\ Len(labels) < MaxContainers
    /\ labels' = Append(labels, [subtype |-> st, exclusive |-> excl])
    /\ alive' = alive \cup {Len(labels) + 1}

\* a removal that the engine does not carry out
EngineDelete_Skipped(c) ==
    /\ alive' = alive
    /\ unhealthy' = unhealthy
    /\ starting' = starting

\* the engine force-removes a container; removing one that is gone is answered with an
\* error that delete_container swallows (lines 519-524) and changes nothing
EngineDelete(c) ==
    /\ alive' = alive \ {c}
    /\ unhealthy' = unhealthy \ {c}
    /\ starting' = starting \ {c}

\* ------------------------------------------------------------ start_session
\* lines 137-138 without the test usage_limit != 0
IsExclusiveRequest_AnyMutable(st, immutable) ==
    LET usage_limit == get_reuse_limit(st)
    IN usage_limit = 1 \/ ~immutable

\* start_session, lines 137-138: the subtype gets a fresh exclusive container
IsExclusiveRequest(st, immutable) ==
    LET usage_limit == get_reuse_limit(st)
    IN usage_limit = 1 \/ (usage_limit # 0 /\ ~immutable)

\* where start_session goes on once the exclusive subtypes are done
AfterExclusive(r) ==
    IF r.exclTodo # <<>> THEN [r EXCEPT !.pc = "excl"]
    ELSE IF r.sharedTodo # <<>> THEN [r EXCEPT !.pc = "identify", !.identTodo = r.sharedTodo]
    ELSE [r EXCEPT !.pc = "store"]

\* lines 126-134: the call is accepted and the store hands out the next session id
StartSession(s, rq) ==
    /\ sess[s].pc = "idle"
    /\ \A t \in Sessions : t < s => sess[t].pc # "idle"
    /\ LET Excl(st) == IsExclusiveRequest(st, rq.immutable)
           Shared(st) == ~IsExclusiveRequest(st, rq.immutable)
       IN sess' = [sess EXCEPT ![s] = AfterExclusive(
                     [IdleSess EXCEPT !.request = rq,
                                      !.exclTodo = SelectSeq(rq.subtypes, Excl),
                                      !.sharedTodo = SelectSeq(rq.subtypes, Shared)])]
    /\ UNCHANGED <<lockVars, delegation, labels, alive, unhealthy, starting, marker, uses, records, bg, workerVars, agent,
                   engine_call, shellVars>>

\* line 140: create_container(subtype, exclusive=True)
CreateExclusive(s) ==
    /\ sess[s].pc = "excl"
    /\ EngineCreate(Head(sess[s].exclTodo), TRUE)
    /\ sess' = [sess EXCEPT ![s].pc = "excl_set", ![s].cur = Len(labels) + 1]
    /\ UNCHANGED <<lockVars, delegation, unhealthy, starting, marker, uses, records, bg, workerVars, agent,
                   engine_call, shellVars>>

\* line 141, allocate_container: the allocation key is set
ExclAllocSet(s) ==
    /\ sess[s].pc = "excl_set"
    /\ marker' = SetMarker(marker, sess[s].cur, s)
    /\ sess' = [sess EXCEPT ![s].pc = "excl_incr"]
    /\ UNCHANGED <<lockVars, delegation, labels, alive, unhealthy, starting, uses, records, bg, workerVars, agent,
                   engine_call, shellVars>>

\* line 141, allocate_container: the lifetime counter is incremented; lines 142-143
ExclAllocIncr(s) ==
    /\ sess[s].pc = "excl_incr"
    /\ uses' = IncrUses(uses, sess[s].cur)
    /\ LET r == sess[s]
       IN sess' = [sess EXCEPT ![s] = AfterExclusive(
                     [r EXCEPT !.allocated = r.allocated \cup {<<Head(r.exclTodo), r.cur>>},
                               !.exclusive = Append(r.exclusive, r.cur),
                               !.exclTodo = Tail(r.exclTodo),
                               !.cur = 0])]
    /\ UNCHANGED <<lockVars, delegation, labels, alive, unhealthy, starting, marker, records, bg, workerVars, agent,
                   engine_call, shellVars>>

\* line 149, _identify_containers: one engine list per non-exclusive subtype; line 153 shuffles
IdentifyContainers(s) ==
    /\ sess[s].pc = "identify"
    /\ LET r == sess[s]
           st == Head(r.identTodo)
       IN \E q \in Shuffles(identify_containers(st)) :
            sess' = [sess EXCEPT ![s] =
                       [r EXCEPT !.cands[st] = q,
                                 !.identTodo = Tail(r.identTodo),
                                 !.pc = IF Tail(r.identTodo) = <<>> THEN "lock" ELSE "identify"]]
    /\ UNCHANGED <<lockVars, delegation, labels, alive, unhealthy, starting, marker, uses, records, bg, workerVars, agent,
                   engine_call, shellVars>>

\* lines 162-168: the scan moves to candidate k. A store read is awaited only when the
\* limit is positive (0 < limit <= await ... short-circuits); with no read left the
\* candidate is selected at once (lines 167, 171).
EnterCandidate(r, k) ==
    LET st == Head(r.sharedTodo)
    IN IF k > Len(r.cands[st]) THEN [r EXCEPT !.pc = "unlock", !.scan = 0]
       ELSE IF get_reuse_limit(st) > 0 THEN [r EXCEPT !.pc = "scan_total", !.scan = k]
       ELSE IF get_concurrency_limit(st) > 0 THEN [r EXCEPT !.pc = "scan_current", !.scan = k]
       ELSE [r EXCEPT !.pc = "shared_set", !.scan = 0, !.selected = r.cands[st][k],
                      !.allocated = {p \in r.allocated : p[1] # st} \cup {<<st, r.cands[st][k]>>}]

\* after the reuse check passed for candidate k
AfterTotal(r, k) ==
    LET st == Head(r.sharedTodo)
    IN IF get_concurrency_limit(st) > 0 THEN [r EXCEPT !.pc = "scan_current", !.scan = k]
       ELSE [r EXCEPT !.pc = "shared_set", !.scan = 0, !.selected = r.cands[st][k],
                      !.allocated = {p \in r.allocated : p[1] # st} \cup {<<st, r.cands[st][k]>>}]

\* after both checks passed for candidate k: lines 167-168, 170-171
SelectCandidate(r, k) ==
    LET st == Head(r.sharedTodo)
    IN [r EXCEPT !.pc = "shared_set", !.scan = 0, !.selected = r.cands[st][k],
                 !.allocated = {p \in r.allocated : p[1] # st} \cup {<<st, r.cands[st][k]>>}]

\* line 161, entering with_lock('allocation:<subtype>', session_id): acquire_lock with the
\* session id as token is repeated until it returns true
AllocLockAcquire(s) ==
    /\ sess[s].pc = "lock"
    /\ LET name == AllocationLock(Head(sess[s].sharedTodo))
       IN /\ AcquireLockResult(locks, name, s)
          /\ locks' = AcquireLockScript(locks, name, s, LockTimeout)
    /\ sess' = [sess EXCEPT ![s] = EnterCandidate([sess[s] EXCEPT !.selected = 0], 1)]
    /\ UNCHANGED <<ret, lastCall, delegation, labels, alive, unhealthy, starting, marker, uses, records, bg, workerVars, agent,
                   engine_call, shellVars>>

\* line 163: container_total_uses of the candidate against the reuse limit
ScanTotal(s) ==
    /\ sess[s].pc = "scan_total"
    /\ LET r == sess[s]
           st == Head(r.sharedTodo)
           c == r.cands[st][r.scan]
       IN sess' = [sess EXCEPT ![s] =
                     IF get_reuse_limit(st) <= container_total_uses(uses, c)
                     THEN EnterCandidate(r, r.scan + 1)
                     ELSE AfterTotal(r, r.scan)]
    /\ UNCHANGED <<lockVars, delegation, labels, alive, unhealthy, starting, marker, uses, records, bg, workerVars, agent,
                   engine_call, shellVars>>

\* line 165: container_current_uses of the candidate against the concurrency limit
ScanCurrent(s) ==
    /\ sess[s].pc = "scan_current"
    /\ LET r == sess[s]
           st == Head(r.sharedTodo)
           c == r.cands[st][r.scan]
       IN sess' = [sess EXCEPT ![s] =
                     IF get_concurrency_limit(st) <= container_current_uses(marker, c)
                     THEN EnterCandidate(r, r.scan + 1)
                     ELSE SelectCandidate(r, r.scan)]
    /\ UNCHANGED <<lockVars, delegation, labels, alive, unhealthy, starting, marker, uses, records, bg, workerVars, agent,
                   engine_call, shellVars>>

\* line 172, allocate_container: the allocation key is set
SharedAllocSet(s) ==
    /\ sess[s].pc = "shared_set"
    /\ marker' = SetMarker(marker, sess[s].selected, s)
    /\ sess' = [sess EXCEPT ![s].pc = "shared_incr"]
    /\ UNCHANGED <<lockVars, delegation, labels, alive, unhealthy, starting, uses, records, bg, workerVars, agent,
                   engine_call, shellVars>>

\* line 172, allocate_container: the lifetime counter is incremented
SharedAllocIncr(s) ==
    /\ sess[s].pc = "shared_incr"
    /\ uses' = IncrUses(uses, sess[s].selected)
    /\ sess' = [sess EXCEPT ![s].pc = "unlock"]
    /\ UNCHANGED <<lockVars, delegation, labels, alive, unhealthy, starting, marker, records, bg, workerVars, agent,
                   engine_call, shellVars>>

\* leaving with_lock: release_lock with the session id as token; lines 174-175
AllocLockRelease(s) ==
    /\ sess[s].pc = "unlock"
    /\ locks' = ReleaseLockScript(locks, AllocationLock(Head(sess[s].sharedTodo)), s)
    /\ LET r == sess[s]
       IN sess' = [sess EXCEPT ![s] =
                     IF r.selected = 0 THEN [r EXCEPT !.pc = "create"]
                     ELSE IF Tail(r.sharedTodo) # <<>>
                          THEN [r EXCEPT !.pc = "lock", !.sharedTodo = Tail(r.sharedTodo),
                                         !.created = {}]
                          ELSE [r EXCEPT !.pc = "store", !.sharedTodo = <<>>,
                                         !.cands = IdleSess.cands, !.created = {}]]
    /\ UNCHANGED <<ret, lastCall, delegation, labels, alive, unhealthy, starting, marker, uses, records, bg, workerVars, agent,
                   engine_call, shellVars>>

\* lines 177-178: create_container(subtype, exclusive=False), appended to the candidates;
\* created holds the containers this loop has created for the subtype so far
CreateShared(s) ==
    /\ sess[s].pc = "create"
    /\ LET st == Head(sess[s].sharedTodo)
       IN /\ EngineCreate(st, FALSE)
          /\ sess' = [sess EXCEPT ![s].pc = "lock",
                                  ![s].cands[st] = Append(@, Len(labels) + 1),
                                  ![s].created = @ \cup {Len(labels) + 1}]
    /\ UNCHANGED <<lockVars, delegation, unhealthy, starting, marker, uses, records, bg, workerVars, agent,
                   engine_call, shellVars>>

\* lines 193-202: store_session
StoreSession(s) ==
    /\ sess[s].pc = "store"
    /\ records' = [records EXCEPT ![s] =
                     [present |-> TRUE, containers |-> sess[s].allocated,
                      exclusive_containers |-> sess[s].exclusive]]
    /\ sess' = [sess EXCEPT ![s].pc = "wait"]
    /\ UNCHANGED <<lockVars, delegation, labels, alive, unhealthy, starting, marker, uses, bg, workerVars, agent,
                   engine_call, shellVars>>

\* the second list of _wait_for_health with the health filter ['unhealthy'] alone
HealthListed_UnhealthyOnly(ids) == ids \cap alive \cap unhealthy

\* _wait_for_health, lines 376-383: the containers among ids that the engine lists with
\* health 'starting' or 'unhealthy'. The list of lines 366-373 (status 'created') is
\* always empty: create_container starts what it creates (lines 460-461) and
\* _identify_containers lists running containers only.
HealthListed(ids) == ids \cap alive \cap (unhealthy \cup starting)

\* lines 210, 363-388, _wait_for_health: the poll that lists none of the allocated
\* containers as created, starting or unhealthy; start_session returns
WaitForHealth(s) ==
    /\ sess[s].pc = "wait"
    /\ HealthListed({p[2] : p \in sess[s].allocated}) = {}
    /\ sess' = [sess EXCEPT ![s].pc = "active"]
    /\ UNCHANGED <<lockVars, delegation, labels, alive, unhealthy, starting, marker, uses, records, bg, workerVars, agent,
                   engine_call, shellVars>>

\* ------------------------------------------------------------ renew_session
\* renew_session: expire on the session key, get_session, renew_container per container
RECURSIVE RenewAll(_, _, _)
RenewAll(m, cs, s) ==
    IF cs = {} THEN m
    ELSE LET p == CHOOSE x \in cs : TRUE
         IN RenewAll(renew_container(m, p[2], s), cs \ {p}, s)

RenewMarkers(m, s, rec) ==
    IF rec.present THEN RenewAll(m, rec.containers, s) ELSE m

RenewSession(s) ==
    /\ sess[s].pc = "active"
    /\ marker' = RenewMarkers(marker, s, records[s])
    /\ UNCHANGED <<lockVars, delegation, labels, alive, unhealthy, starting, uses, records, sess, bg, workerVars, agent,
                   engine_call, shellVars>>

\* -------------------------------------------------------------- end_session
\* the order in which a dict's items are visited: any order of the set
Orders(S) == Shuffles(S)

\* where end_session goes on: shared containers first, then exclusive ones, then the record
AfterEndStep(r) ==
    IF r.endShared # <<>> THEN [r EXCEPT !.pc = "end_lock"]
    ELSE IF r.endExcl # <<>> THEN [r EXCEPT !.pc = "end_delete"]
    ELSE [r EXCEPT !.pc = "end_record"]

\* lines 229-238: get_session; the shared and exclusive work lists. The caller is at
\* position from: it holds the id start_session returned
EndSessionCall(s, from) ==
    /\ sess[s].pc = from
    /\ LET rec == records[s]
           exclusive_container_ids == {rec.exclusive_containers[i] :
                                          i \in 1..Len(rec.exclusive_containers)}
           shared_containers == {p \in rec.containers : p[2] \notin exclusive_container_ids}
       IN IF rec.present
          THEN \E q \in Orders(shared_containers) :
                 sess' = [sess EXCEPT ![s] = AfterEndStep(
                            [sess[s] EXCEPT !.found = TRUE, !.endShared = q,
                                            !.endExcl = rec.exclusive_containers])]
          ELSE sess' = [sess EXCEPT ![s].pc = "end_record", ![s].found = FALSE]
    /\ UNCHANGED <<lockVars, delegation, labels, alive, unhealthy, starting, marker, uses, records, bg, workerVars, agent,
                   engine_call, shellVars>>

\* end_session(s), called once start_session has returned
EndSession(s) == EndSessionCall(s, "active")

\* number of end_session calls made for one session id
MaxEndCalls == 2

\* end_session(s) called again after an earlier end_session(s) has returned
EndSessionAgain(s) ==
    /\ sess[s].ends < MaxEndCalls
    /\ EndSessionCall(s, "ended")

\* line 241, entering with_lock('allocation:<subtype>', session_id)
EndLockAcquire(s) ==
    /\ sess[s].pc = "end_lock"
    /\ LET name == AllocationLock(Head(sess[s].endShared)[1])
       IN /\ AcquireLockResult(locks, name, s)
          /\ locks' = AcquireLockScript(locks, name, s, LockTimeout)
    /\ sess' = [sess EXCEPT ![s].pc = "end_release"]
    /\ UNCHANGED <<ret, lastCall, delegation, labels, alive, unhealthy, starting, marker, uses, records, bg, workerVars, agent,
                   engine_call, shellVars>>

\* line 242: release_container
EndRelease(s) ==
    /\ sess[s].pc = "end_release"
    /\ marker' = release_container(marker, Head(sess[s].endShared)[2], s)
    /\ sess' = [sess EXCEPT ![s].pc = "end_unlock"]
    /\ UNCHANGED <<lockVars, delegation, labels, alive, unhealthy, starting, uses, records, bg, workerVars, agent,
                   engine_call, shellVars>>

\* leaving with_lock: release_lock
EndLockRelease(s) ==
    /\ sess[s].pc = "end_unlock"
    /\ locks' = ReleaseLockScript(locks, AllocationLock(Head(sess[s].endShared)[1]), s)
    /\ sess' = [sess EXCEPT ![s] = AfterEndStep([sess[s] EXCEPT !.endShared = Tail(@)])]
    /\ UNCHANGED <<ret, lastCall, delegation, labels, alive, unhealthy, starting, marker, uses, records, bg, workerVars, agent,
                   engine_call, shellVars>>

\* line 246, delete_container lines 515-524: the engine force-removes the container
EndDeleteEngine(s) ==
    /\ sess[s].pc = "end_delete"
    /\ EngineDelete(Head(sess[s].endExcl))
    /\ sess' = [sess EXCEPT ![s].pc = "end_remove"]
    /\ UNCHANGED <<lockVars, delegation, labels, marker, uses, records, bg, workerVars, agent,
                   engine_call, shellVars>>

\* line 246, delete_container line 526: remove_container purges the store keys
EndRemoveStore(s) ==
    /\ sess[s].pc = "end_remove"
    /\ marker' = RemoveMarkers(marker, Head(sess[s].endExcl))
    /\ uses' = RemoveUses(uses, Head(sess[s].endExcl))
    /\ sess' = [sess EXCEPT ![s] = AfterEndStep([sess[s] EXCEPT !.endExcl = Tail(@)])]
    /\ UNCHANGED <<lockVars, delegation, labels, alive, unhealthy, starting, records, bg, workerVars, agent,
                   engine_call, shellVars>>

\* line 248: delete_session; end_session returns
EndDeleteSession(s) ==
    /\ sess[s].pc = "end_record"
    /\ records' = delete_session(records, s)
    /\ sess' = [sess EXCEPT ![s].pc = "ended", ![s].ends = @ + 1]
    /\ UNCHANGED <<lockVars, delegation, labels, alive, unhealthy, starting, marker, uses, bg, workerVars, agent,
                   engine_call, shellVars>>

\* ------------------------------------------------- the store and the engine
\* the time to live of an allocation key (session_expiry) runs out
MarkerExpire(c, s) ==
    /\ <<c, s>> \in marker
    /\ marker' = marker \ {<<c, s>>}
    /\ UNCHANGED <<lockVars, delegation, labels, alive, unhealthy, starting, uses, records, sess, bg, workerVars, agent,
                   engine_call, shellVars>>

\* the time to live of a session record (session_expiry) runs out
SessionExpire(s) ==
    /\ records[s].present
    /\ records' = [records EXCEPT ![s] = NoRecord]
    /\ UNCHANGED <<lockVars, delegation, labels, alive, unhealthy, starting, marker, uses, sess, bg, workerVars, agent,
                   engine_call, shellVars>>

\* the time to live of a lock key runs out
LockExpire(name) ==
    /\ locks[name].holder # NoToken
    /\ locks' = ExpireKey(locks, name)
    /\ UNCHANGED <<ret, lastCall, poolVars, workerVars, agent, shellVars>>

\* a container's health check starts failing
BecomeUnhealthy(c) ==
    /\ c \in alive \ unhealthy
    /\ unhealthy' = unhealthy \cup {c}
    /\ starting' = starting \ {c}
    /\ UNCHANGED <<lockVars, delegation, labels, alive, marker, uses, records, sess, bg, workerVars, agent,
                   engine_call, shellVars>>

\* ------------------------------------------------------------ background_task
\* _clean_containers, lines 531-541: containers labelled exclusive=true
ListExclusive == {c \in alive : labels[c].exclusive}

\* lines 548-559: containers labelled exclusive=false whose health is unhealthy
ListUnhealthyShared == {c \in alive : ~labels[c].exclusive /\ c \in unhealthy}

\* line 566 without the test of lines 568-569
ListReusable_AnyLimit ==
    {c \in alive : c \in identify_containers(labels[c].subtype)}

\* lines 566-569: _identify_containers() of every subtype whose reuse limit is not 0
ListReusable ==
    {c \in alive : /\ c \in identify_containers(labels[c].subtype)
                   /\ get_reuse_limit(labels[c].subtype) # 0}

\* where the sweep goes on: the next container of the list, else the next list
AfterSweepStep(b) ==
    IF b.todo # {} THEN [b EXCEPT !.pc = "check", !.cur = 0]
    ELSE IF b.phase = "exclusive" THEN [b EXCEPT !.pc = "list_unhealthy", !.cur = 0]
    ELSE IF b.phase = "unhealthy" THEN [b EXCEPT !.pc = "list_reusable", !.cur = 0]
    ELSE [b EXCEPT !.pc = "release", !.cur = 0, !.phase = "none"]

\* line 334: acquire_lock('background', timeout=120) with the client id as token; when
\* it returns false the iteration sleeps
BackgroundAcquire(w) ==
    /\ bg[w].pc = "sleep"
    /\ locks' = AcquireLockScript(locks, BackgroundLock, ClientId(w), BackgroundTimeout)
    /\ bg' = [bg EXCEPT ![w].pc =
                IF AcquireLockResult(locks, BackgroundLock, ClientId(w))
                THEN "list_exclusive" ELSE "sleep"]
    /\ UNCHANGED <<ret, lastCall, delegation, labels, alive, unhealthy, starting, marker, uses, records, sess, workerVars, agent,
                   engine_call, shellVars>>

\* lines 531-541
SweepListExclusive(w) ==
    /\ bg[w].pc = "list_exclusive"
    /\ bg' = [bg EXCEPT ![w] =
                AfterSweepStep([bg[w] EXCEPT !.phase = "exclusive", !.todo = ListExclusive])]
    /\ UNCHANGED <<lockVars, delegation, labels, alive, unhealthy, starting, marker, uses, records, sess, workerVars, agent,
                   engine_call, shellVars>>

\* lines 548-559
SweepListUnhealthy(w) ==
    /\ bg[w].pc = "list_unhealthy"
    /\ bg' = [bg EXCEPT ![w] =
                AfterSweepStep([bg[w] EXCEPT !.phase = "unhealthy", !.todo = ListUnhealthyShared])]
    /\ UNCHANGED <<lockVars, delegation, labels, alive, unhealthy, starting, marker, uses, records, sess, workerVars, agent,
                   engine_call, shellVars>>

\* line 566
SweepListReusable(w) ==
    /\ bg[w].pc = "list_reusable"
    /\ bg' = [bg EXCEPT ![w] =
                AfterSweepStep([bg[w] EXCEPT !.phase = "reusable", !.todo = ListReusable])]
    /\ UNCHANGED <<lockVars, delegation, labels, alive, unhealthy, starting, marker, uses, records, sess, workerVars, agent,
                   engine_call, shellVars>>

\* lines 543, 561, 571: container_is_allocated of the next container of the list
SweepCheckAllocated(w) ==
    /\ bg[w].pc = "check"
    /\ \E c \in bg[w].todo :
         LET b == [bg[w] EXCEPT !.todo = @ \ {c}]
         IN bg' = [bg EXCEPT ![w] =
                     IF container_is_allocated(marker, c) THEN AfterSweepStep(b)
                     ELSE IF b.phase = "reusable" THEN [b EXCEPT !.pc = "total", !.cur = c]
                     ELSE [b EXCEPT !.pc = "delete", !.cur = c]]
    /\ UNCHANGED <<lockVars, delegation, labels, alive, unhealthy, starting, marker, uses, records, sess, workerVars, agent,
                   engine_call, shellVars>>

\* line 573 with <= in place of <: a container exactly at its reuse limit is kept
SweepCheckTotal_KeepsAtLimit(w) ==
    /\ bg[w].pc = "total"
    /\ bg' = [bg EXCEPT ![w] =
                IF container_total_uses(uses, bg[w].cur) <= get_reuse_limit(labels[bg[w].cur].subtype)
                THEN AfterSweepStep(bg[w])
                ELSE [bg[w] EXCEPT !.pc = "delete"]]
    /\ UNCHANGED <<lockVars, delegation, labels, alive, unhealthy, starting, marker, uses, records, sess, workerVars, agent,
                   engine_call, shellVars>>

\* line 573: container_total_uses against the subtype's reuse limit
SweepCheckTotal(w) ==
    /\ bg[w].pc = "total"
    /\ bg' = [bg EXCEPT ![w] =
                IF container_total_uses(uses, bg[w].cur) < get_reuse_limit(labels[bg[w].cur].subtype)
                THEN AfterSweepStep(bg[w])
                ELSE [bg[w] EXCEPT !.pc = "delete"]]
    /\ UNCHANGED <<lockVars, delegation, labels, alive, unhealthy, starting, marker, uses, records, sess, workerVars, agent,
                   engine_call, shellVars>>

\* lines 544, 563, 575, delete_container lines 515-524: the engine force-removes it
SweepDeleteEngine(w) ==
    /\ bg[w].pc = "delete"
    /\ EngineDelete(bg[w].cur)
    /\ bg' = [bg EXCEPT ![w].pc = "remove"]
    /\ UNCHANGED <<lockVars, delegation, labels, marker, uses, records, sess, workerVars, agent,
                   engine_call, shellVars>>

\* delete_container lines 519-524: the engine answers the delete with an error, a
\* DockerError or ClientError, which is swallowed; the container stays and line 526 runs
SweepDeleteFails(w) ==
    /\ bg[w].pc = "delete"
    /\ bg' = [bg EXCEPT ![w].pc = "remove"]
    /\ UNCHANGED <<lockVars, delegation, labels, alive, unhealthy, starting, marker, uses, records, sess,
                   workerVars, agent, engine_call, shellVars>>

\* delete_container line 526: remove_container purges the store keys
SweepRemoveStore(w) ==
    /\ bg[w].pc = "remove"
    /\ marker' = RemoveMarkers(marker, bg[w].cur)
    /\ uses' = RemoveUses(uses, bg[w].cur)
    /\ bg' = [bg EXCEPT ![w] = AfterSweepStep(bg[w])]
    /\ UNCHANGED <<lockVars, delegation, labels, alive, unhealthy, starting, records, sess, workerVars, agent,
                   engine_call, shellVars>>

\* line 339: release_lock('background'); line 342: the iteration sleeps
BackgroundRelease(w) ==
    /\ bg[w].pc = "release"
    /\ locks' = ReleaseLockScript(locks, BackgroundLock, ClientId(w))
    /\ bg' = [bg EXCEPT ![w].pc = "sleep"]
    /\ UNCHANGED <<ret, lastCall, delegation, labels, alive, unhealthy, starting, marker, uses, records, sess, workerVars, agent,
                   engine_call, shellVars>>

\* --------------------------------------------------------- the pool's runs
\* a session that a controller which has since gone started and never ended
ForeignSession == MaxSessions + 1
MarkerSessions == Sessions \cup {ForeignSession}

\* the engine and the store when the controllers start with nothing left from before
FreshPool ==
    [labels |-> <<>>, alive |-> {}, uses |-> [c \in Cids |-> 0], marker |-> {}]

\* the engine and the store when an earlier controller left one shared "web" container,
\* used once, whose session was never ended
UsedPool ==
    [labels |-> <<[subtype |-> "web", exclusive |-> FALSE]>>, alive |-> {1},
     uses |-> [c \in Cids |-> IF c = 1 THEN 1 ELSE 0], marker |-> {<<1, ForeignSession>>}]

InitPool(pools) ==
    /\ locks = [n \in LockNames |-> NoLock]
    /\ ret = FALSE
    /\ lastCall = NoCall
    /\ delegation \in Delegations
    /\ \E p \in pools :
         /\ labels = p.labels
         /\ alive = p.alive
         /\ uses = p.uses
         /\ marker = p.marker
    /\ unhealthy = {}
    /\ starting = {}
    /\ records = [s \in Sessions |-> NoRecord]
    /\ sess = [s \in Sessions |-> IdleSess]
    /\ bg = [w \in Sweepers |-> IdleBg]
    /\ WorkerAtRest
    /\ engine_call = NoEngineCall
    /\ agent = NoRun
    /\ ShellsAtRest

Init == InitPool({FreshPool, UsedPool})

StartNext ==
    \E s \in Sessions, rq \in Requests : StartSession(s, rq)

ExclusiveNext ==
    \E s \in Sessions :
        \/ CreateExclusive(s)
        \/ ExclAllocSet(s)
        \/ ExclAllocIncr(s)

SharedNext ==
    \E s \in Sessions :
        \/ IdentifyContainers(s)
        \/ AllocLockAcquire(s)
        \/ ScanTotal(s)
        \/ ScanCurrent(s)
        \/ SharedAllocSet(s)
        \/ SharedAllocIncr(s)
        \/ AllocLockRelease(s)
        \/ CreateShared(s)

ReturnNext ==
    \E s \in Sessions :
        \/ StoreSession(s)
        \/ WaitForHealth(s)
        \/ RenewSession(s)

EndSharedNext ==
    \E s \in Sessions :
        \/ EndSession(s)
        \/ EndLockAcquire(s)
        \/ EndRelease(s)
        \/ EndLockRelease(s)
        \/ EndDeleteSession(s)

EndExclusiveNext ==
    \E s \in Sessions :
        \/ EndDeleteEngine(s)
        \/ EndRemoveStore(s)

\* background_task of worker w: the next step of its endless loop
BackgroundTask(w) ==
    \/ BackgroundAcquire(w)
    \/ SweepListExclusive(w)
    \/ SweepListUnhealthy(w)
    \/ SweepListReusable(w)
    \/ SweepCheckAllocated(w)
    \/ SweepCheckTotal(w)
    \/ SweepDeleteEngine(w)
    \/ SweepRemoveStore(w)
    \/ BackgroundRelease(w)

SweepNext ==
    \E w \in Workers : BackgroundTask(w)

\* keys of the store reach the end of their time to live
ExpiryNext ==
    \/ \E c \in Cids, s \in MarkerSessions : MarkerExpire(c, s)
    \/ \E s \in Sessions : SessionExpire(s)
    \/ \E n \in LockNames : LockExpire(n)

HealthNext ==
    \E c \in Cids : BecomeUnhealthy(c)

\* a container's health check passes: from starting or unhealthy to healthy
BecomeHealthy(c) ==
    /\ c \in alive \cap (unhealthy \cup starting)
    /\ unhealthy' = unhealthy \ {c}
    /\ starting' = starting \ {c}
    /\ UNCHANGED <<lockVars, delegation, labels, alive, marker, uses, records, sess, bg, workerVars, agent,
                   engine_call, shellVars>>

\* ------------------------------------------------------ the lock scripts' runs
\* clients with tokens of their own call acquire_lock and release_lock in any order
\* while time passes
AcquireLock(name, token, ttl) ==
    /\ acquire_lock(name, token, ttl)
    /\ UNCHANGED <<poolVars, workerVars, agent, shellVars>>

ReleaseLock(name, token) ==
    /\ release_lock(name, token)
    /\ UNCHANGED <<poolVars, workerVars, agent, shellVars>>

SecondPasses ==
    /\ Tick
    /\ UNCHANGED <<poolVars, workerVars, agent, shellVars>>

NextLock ==
    \/ \E n \in LockNames, t \in Tokens, d \in TTLs : AcquireLock(n, t, d)
    \/ \E n \in LockNames, t \in Tokens : ReleaseLock(n, t)
    \/ SecondPasses

SpecLock == InitPool({FreshPool}) /\ [][NextLock]_vars

Next ==
    \/ StartNext
    \/ ExclusiveNext
    \/ SharedNext
    \/ ReturnNext
    \/ EndSharedNext
    \/ EndExclusiveNext
    \/ SweepNext
    \/ ExpiryNext

Spec == Init /\ [][Next]_vars

\* the same runs when nothing is left from before
SpecFresh == InitPool({FreshPool}) /\ [][Next]_vars

\* ------------------------------------------- start_session over the delegations
\* the reuse limits a task delegation may answer for "web": 0 (unlimited), 1, ... ; "db"
\* is single-use
ReuseLimits == 0..WebReuseLimit

AnyDelegations ==
    { [reuse_limit |-> [web |-> r, db |-> 1],
       concurrency_limit |-> [web |-> WebConcurrencyLimit, db |-> 0]] : r \in ReuseLimits }

AnyRequests ==
    { [subtypes |-> q, immutable |-> i] :
        q \in {<<"web">>, <<"db">>, <<"web", "db">>}, i \in BOOLEAN }

InitStart ==
    /\ locks = [n \in LockNames |-> NoLock]
    /\ ret = FALSE
    /\ lastCall = NoCall
    /\ delegation \in AnyDelegations
    /\ labels = FreshPool.labels
    /\ alive = FreshPool.alive
    /\ uses = FreshPool.uses
    /\ marker = FreshPool.marker
    /\ unhealthy = {}
    /\ starting = {}
    /\ records = [s \in Sessions |-> NoRecord]
    /\ sess = [s \in Sessions |-> IdleSess]
    /\ bg = [w \in Sweepers |-> IdleBg]
    /\ WorkerAtRest
    /\ engine_call = NoEngineCall
    /\ agent = NoRun
    /\ ShellsAtRest

StartAnyNext ==
    \E s \in Sessions, rq \in AnyRequests : StartSession(s, rq)

NextStart ==
    \/ StartAnyNext
    \/ ExclusiveNext
    \/ SharedNext
    \/ ReturnNext

SpecStart == InitStart /\ [][NextStart]_vars

\* ----------------------------------- start_session over the concurrency limits
\* the concurrency limits a task delegation may answer for "web"
ConcurrencyLimits == 1..WebConcurrencyLimit

SharedDelegations ==
    { [reuse_limit |-> [web |-> WebReuseLimit, db |-> 1],
       concurrency_limit |-> [web |-> k, db |-> 0]] : k \in ConcurrencyLimits }

InitShared ==
    /\ locks = [n \in LockNames |-> NoLock]
    /\ ret = FALSE
    /\ lastCall = NoCall
    /\ delegation \in SharedDelegations
    /\ labels = FreshPool.labels
    /\ alive = FreshPool.alive
    /\ uses = FreshPool.uses
    /\ marker = FreshPool.marker
    /\ unhealthy = {}
    /\ starting = {}
    /\ records = [s \in Sessions |-> NoRecord]
    /\ sess = [s \in Sessions |-> IdleSess]
    /\ bg = [w \in Sweepers |-> IdleBg]
    /\ WorkerAtRest
    /\ engine_call = NoEngineCall
    /\ agent = NoRun
    /\ ShellsAtRest

SpecShared == InitShared /\ [][NextStart]_vars

\* --------------------------------------- start_session with health checks
\* the images either have no health check or start every container as 'starting'
InitHealth ==
    /\ locks = [n \in LockNames |-> NoLock]
    /\ ret = FALSE
    /\ lastCall = NoCall
    /\ delegation \in Delegations
    /\ labels = FreshPool.labels
    /\ alive = FreshPool.alive
    /\ uses = FreshPool.uses
    /\ marker = FreshPool.marker
    /\ unhealthy = {}
    /\ starting \in {{}, Cids}
    /\ records = [s \in Sessions |-> NoRecord]
    /\ sess = [s \in Sessions |-> IdleSess]
    /\ bg = [w \in Sweepers |-> IdleBg]
    /\ WorkerAtRest
    /\ engine_call = NoEngineCall
    /\ agent = NoRun
    /\ ShellsAtRest

NextHealth ==
    \/ NextStart
    \/ HealthNext
    \/ \E c \in Cids : BecomeHealthy(c)
    \/ \E s \in Sessions : SessionExpire(s)

SpecHealth == InitHealth /\ [][NextHealth]_vars

\* ------------------------------------------------ end_session called repeatedly
EndAgainNext ==
    \E s \in Sessions : EndSessionAgain(s)

NextEnd ==
    \/ StartNext
    \/ ExclusiveNext
    \/ SharedNext
    \/ ReturnNext
    \/ EndSharedNext
    \/ EndExclusiveNext
    \/ EndAgainNext
    \/ ExpiryNext

SpecEnd == Init /\ [][NextEnd]_vars

\* ------------------------------------------------- runs after a holder crashed
\* the token of a client that took every lock and then crashed: it makes no call again
CrashedToken == NumTokens
LiveTokens == Tokens \ {CrashedToken}

\* every lock is held by the crashed client, with some of its time to live left
InitCrashed ==
    /\ \E d \in TTLs : locks = [n \in LockNames |-> [holder |-> CrashedToken, ttl |-> d]]
    /\ ret = FALSE
    /\ lastCall = NoCall
    /\ delegation \in Delegations
    /\ labels = FreshPool.labels
    /\ alive = FreshPool.alive
    /\ uses = FreshPool.uses
    /\ marker = FreshPool.marker
    /\ unhealthy = {}
    /\ starting = {}
    /\ records = [s \in Sessions |-> NoRecord]
    /\ sess = [s \in Sessions |-> IdleSess]
    /\ bg = [w \in Sweepers |-> IdleBg]
    /\ WorkerAtRest
    /\ engine_call = NoEngineCall
    /\ agent = NoRun
    /\ ShellsAtRest

\* a live client tries to take lock n, as background_task does every iteration (line 334)
LiveAcquire(n, t) == \E d \in TTLs : AcquireLock(n, t, d)

NextCrashed ==
    \/ \E n \in LockNames, t \in LiveTokens : LiveAcquire(n, t)
    \/ \E n \in LockNames, t \in LiveTokens : ReleaseLock(n, t)
    \/ SecondPasses

\* time passes in the store, and every live client keeps trying (background_task's
\* while True, lines 332-342)
LiveClientsRetry ==
    /\ WF_vars(SecondPasses)
    /\ \A n \in LockNames, t \in LiveTokens : WF_vars(LiveAcquire(n, t))

SpecCrashed == InitCrashed /\ [][NextCrashed]_vars /\ LiveClientsRetry

\* the runs of the shared pool with the sweep kept going: an earlier controller left a
\* shared container, every start_session asks for the shared subtype, and background_task
\* (an endless loop, lines 331-342) always gets to take its next step
StartSharedNext ==
    \E s \in Sessions : StartSession(s, [subtypes |-> <<"web">>, immutable |-> TRUE])

NextShared ==
    \/ StartSharedNext
    \/ SharedNext
    \/ ReturnNext
    \/ EndSharedNext
    \/ SweepNext
    \/ ExpiryNext

SweepKeepsRunning == \A w \in Workers : WF_vars(BackgroundTask(w))

SpecSweep == InitPool({UsedPool}) /\ [][NextShared]_vars /\ SweepKeepsRunning

\* ------------------------------------- the shared pool with a failing engine
\* the runs of the shared pool when the engine can refuse to delete a container
DeleteFailsNext ==
    \E w \in Workers : SweepDeleteFails(w)

NextFailing == NextShared \/ DeleteFailsNext

SpecFailing == InitPool({UsedPool}) /\ [][NextFailing]_vars

\* ------------------------------------------- background_task on its own
\* several worker processes run background_task against one store; the sweep, the
\* lock calls and the store can fail, and the lock key can reach its time to live

\* _clean_containers raises: line 337 logs it and line 339 releases the lock
SweepRaises_PastRelease(w) ==
    /\ bg[w].pc \notin {"sleep", "release"}
    /\ bg' = [bg EXCEPT ![w].pc = "sleep"]
    /\ UNCHANGED <<lockVars, delegation, labels, alive, unhealthy, starting, marker, uses, records, sess,
                   workerVars, agent, engine_call, shellVars>>

SweepRaises(w) ==
    /\ bg[w].pc \notin {"sleep", "release"}
    /\ bg' = [bg EXCEPT ![w].pc = "release"]
    /\ UNCHANGED <<lockVars, delegation, labels, alive, unhealthy, starting, marker, uses, records, sess,
                   workerVars, agent, engine_call, shellVars>>

\* acquire_lock raises (line 334): line 341 logs it and the iteration sleeps; the
\* script has run in the store or it has not
AcquireRaises(w) ==
    /\ bg[w].pc = "sleep"
    /\ \/ locks' = locks
       \/ locks' = AcquireLockScript(locks, BackgroundLock, ClientId(w), BackgroundTimeout)
    /\ UNCHANGED <<ret, lastCall, poolVars, workerVars, agent, shellVars>>

\* release_lock raises (line 339): line 341 logs it and the iteration sleeps; the
\* script has run in the store or it has not
ReleaseRaises(w) ==
    /\ bg[w].pc = "release"
    /\ \/ locks' = locks
       \/ locks' = ReleaseLockScript(locks, BackgroundLock, ClientId(w))
    /\ bg' = [bg EXCEPT ![w].pc = "sleep"]
    /\ UNCHANGED <<ret, lastCall, delegation, labels, alive, unhealthy, starting, marker, uses, records,
                   sess, workerVars, agent, engine_call, shellVars>>

\* the engine and the store when earlier controllers left a shared "web" container at
\* its reuse limit and an exclusive "db" container, both with the marker of a session
\* that was never ended
SpentPool ==
    [labels |-> <<[subtype |-> "web", exclusive |-> FALSE], [subtype |-> "db", exclusive |-> TRUE]>>,
     alive |-> {1, 2},
     uses |-> [c \in Cids |-> IF c = 1 THEN WebReuseLimit ELSE IF c = 2 THEN 1 ELSE 0],
     marker |-> {<<1, ForeignSession>>, <<2, ForeignSession>>}]

NextBackground ==
    \/ \E w \in Sweepers : BackgroundTask(w)
    \/ \E w \in Sweepers : SweepRaises(w)
    \/ \E w \in Sweepers : AcquireRaises(w)
    \/ \E w \in Sweepers : ReleaseRaises(w)
    \/ \E c \in Cids, s \in MarkerSessions : MarkerExpire(c, s)
    \/ LockExpire(BackgroundLock)

SpecBackground == InitPool({SpentPool}) /\ [][NextBackground]_vars

\* ------------------------------------------- the sweep over the delegations
\* the runs of start_session and background_task over reuse limits 0, 1 and 2 of
\* "web", with containers whose health check starts failing, while the allocation
\* keys of the earlier sessions expire; earlier controllers left a spent shared and an exclusive container
InitReclaim ==
    /\ locks = [n \in LockNames |-> NoLock]
    /\ ret = FALSE
    /\ lastCall = NoCall
    /\ delegation \in AnyDelegations
    /\ labels = SpentPool.labels
    /\ alive = SpentPool.alive
    /\ uses = SpentPool.uses
    /\ marker = SpentPool.marker
    /\ unhealthy = {}
    /\ starting = {}
    /\ records = [s \in Sessions |-> NoRecord]
    /\ sess = [s \in Sessions |-> IdleSess]
    /\ bg = [w \in Sweepers |-> IdleBg]
    /\ WorkerAtRest
    /\ engine_call = NoEngineCall
    /\ agent = NoRun
    /\ ShellsAtRest

NextReclaim ==
    \/ StartSharedNext
    \/ ExclusiveNext
    \/ SharedNext
    \/ ReturnNext
    \/ SweepNext
    \/ HealthNext
    \/ \E c \in Cids : MarkerExpire(c, ForeignSession)

SpecReclaim == InitReclaim /\ [][NextReclaim]_vars

\* ------------------------------------------------- start_session that raises
\* start_session raises at one of its awaits after an allocation: create_container for
\* a later subtype (lines 140, 177), the homepage container or store_session (lines
\* 180-202). No handler encloses them, so the call ends there and then
StartSessionRaises(s) ==
    /\ sess[s].pc \in {"excl", "create", "store"}
    /\ sess[s].allocated # {}
    /\ sess' = [sess EXCEPT ![s].pc = "raised"]
    /\ UNCHANGED <<lockVars, delegation, labels, alive, unhealthy, starting, marker, uses, records,
                   bg, workerVars, agent, engine_call, shellVars>>

\* an allocation key of a call that raised reaches the end of its TTL
\* (allocate_container sets it with ex=session_expiry and no renew_session follows)
RaisedMarkerExpire(c, s) ==
    /\ sess[s].pc = "raised"
    /\ MarkerExpire(c, s)

\* start_session(['web', 'db']) calls, any of which can raise, next to the sweep
NextRaise ==
    \/ \E s \in Sessions, immutable \in BOOLEAN :
          StartSession(s, [subtypes |-> <<"web", "db">>, immutable |-> immutable])
    \/ ExclusiveNext
    \/ SharedNext
    \/ ReturnNext
    \/ SweepNext
    \/ \E s \in Sessions : StartSessionRaises(s)
    \/ \E c \in Cids, s \in Sessions : RaisedMarkerExpire(c, s)

SpecRaise == InitPool({FreshPool}) /\ [][NextRaise]_vars

\* the same calls when no run of the sweep overlaps with a start_session call
NextRaiseApart ==
    /\ NextRaise
    /\ bg' # bg => \A s \in Sessions : sess[s].pc \in {"idle", "raised", "active", "wait"}
    /\ sess' # sess => \A w \in Sweepers : bg[w].pc = "sleep"

SpecRaiseApart == InitPool({FreshPool}) /\ [][NextRaiseApart]_vars

\* ------------------------------------------------- the task worker's handlers
\* Each action is one run of a coroutine of the worker's event loop from one
\* suspension point to the next: nothing else runs in between.

\* the keys of session_map
Running(m) == {sid \in SampleIds : m[sid].present}

AtCapacity_Beyond(m, t) == Cardinality(Running(m)) > t.concurrency

\* start_sample's test of the concurrency limit (line 194)
AtCapacity(m, t) == Cardinality(Running(m)) >= t.concurrency

NoSuchSession_Never(m, sid) == FALSE

\* the test for an unknown session id of interact (line 236), _cancel (line 275) and
\* sample_status (line 334)
NoSuchSession(m, sid) == ~m[sid].present

\* session_map.pop(session_id, None)
session_map_pop(m, sid) == [m EXCEPT ![sid] = NoEntry]

\* controller.agent_pull(env_input): the turn takes agent_lock when it is called and
\* keeps it until the environment's next output is there
agent_pull(c, env_input) ==
    [c EXCEPT !.agent_lock = TRUE, !.pulls = @ + 1, !.env_input = env_input]

\* the turn's output is there: agent_pull gives agent_lock back and returns
agent_pull_return(c) ==
    [c EXCEPT !.pulls = @ - 1, !.agent_lock = (c.pulls - 1 > 0)]

InteractRefused_CancellingOnly(c, e) == e.cancelling

InteractRefused_LockOnly(c, e) == c.agent_lock

\* interact's test for a turn in flight (line 239)
InteractRefused(c, e) == c.agent_lock \/ e.cancelling

\* asyncio's Task.cancel(): no effect on a finished task, otherwise CancelledError is
\* thrown into the coroutine the next time it runs
asyncio_task_cancel(u) ==
    IF u.pc \in {"created", "sample", "deliver"} THEN [u EXCEPT !.must_cancel = TRUE] ELSE u

\* the statuses a sample's result can carry: CANCELLED only once a cancelled input
\* was injected
SampleStatuses(c) ==
    {"COMPLETED"} \cup (IF c.env_input = "cancelled" THEN {"CANCELLED"} ELSE {})

Response(op, sid, code) == [op |-> op, sid |-> sid, code |-> code]

CancelOp(with_notice) == IF with_notice THEN "cancel_with_notice" ELSE "cancel"

\* start_sample (lines 190-217), up to the await of the first agent turn
StartSample(sid) ==
    /\ IF session_map[sid].present
       THEN /\ lastRequest' = Response("start_sample", sid, 400)
            /\ UNCHANGED <<session_map, unit, controller>>
       ELSE IF AtCapacity(session_map, task)
       THEN /\ lastRequest' = Response("start_sample", sid, 406)
            /\ UNCHANGED <<session_map, unit, controller>>
       ELSE /\ unit[sid].pc = "none"
            /\ unit' = [unit EXCEPT ![sid].pc = "created"]
            /\ session_map' = [session_map EXCEPT ![sid] = RunningSampleData]
            /\ controller' = [controller EXCEPT ![sid] = agent_pull(NewController, "none")]
            /\ lastRequest' = Response("start_sample", sid, 200)
    /\ UNCHANGED <<task, cancels, notices, fanout, lockVars, poolVars, agent, shellVars, earlier>>

\* interact (lines 233-251), up to the await of its agent turn
Interact(sid) ==
    /\ IF NoSuchSession(session_map, sid)
       THEN /\ lastRequest' = Response("interact", sid, 400)
            /\ UNCHANGED controller
       ELSE IF InteractRefused(controller[sid], session_map[sid])
       THEN /\ lastRequest' = Response("interact", sid, 400)
            /\ UNCHANGED controller
       ELSE /\ controller' = [controller EXCEPT ![sid] = agent_pull(@, "normal")]
            /\ lastRequest' = Response("interact", sid, 200)
    /\ UNCHANGED <<task, session_map, unit, cancels, notices, fanout, lockVars, poolVars, agent, shellVars, earlier>>

\* the agent turn awaited by start_sample (line 217) or interact (line 251) returns
TurnCompletes(sid) ==
    /\ controller[sid].pulls > 0
    /\ controller' = [controller EXCEPT ![sid] = agent_pull_return(@)]
    /\ UNCHANGED <<task, session_map, unit, cancels, notices, lastRequest, fanout, lockVars, poolVars, agent, shellVars, earlier>>

\* _cancel (lines 274-312) up to its first suspension: a call with notice spawns
\* cancel_task and returns, a plain call runs cancel_task itself
CancelCall(sid, with_notice) ==
    /\ IF NoSuchSession(session_map, sid)
       THEN /\ lastRequest' = Response(CancelOp(with_notice), sid, 400)
            /\ UNCHANGED <<session_map, unit, controller, cancels>>
       ELSE /\ Len(cancels[sid]) < MaxCancels
            /\ controller' = [controller EXCEPT ![sid].env_input = "cancelled"]
            /\ IF with_notice
               THEN /\ session_map' = [session_map EXCEPT ![sid].cancelling = TRUE]
                    /\ cancels' = [cancels EXCEPT ![sid] =
                                     Append(@, [with_notice |-> TRUE, pc |-> "spawned"])]
                    /\ lastRequest' = Response(CancelOp(with_notice), sid, 200)
                    /\ UNCHANGED unit
               ELSE IF task.full_async
               THEN /\ unit' = [unit EXCEPT ![sid] = asyncio_task_cancel(@)]
                    /\ session_map' = session_map_pop(session_map, sid)
                    /\ cancels' = [cancels EXCEPT ![sid] =
                                     Append(@, [with_notice |-> FALSE, pc |-> "returned"])]
                    /\ lastRequest' = Response(CancelOp(with_notice), sid, 200)
               ELSE /\ session_map' = [session_map EXCEPT ![sid].cancelling = TRUE]
                    /\ cancels' = [cancels EXCEPT ![sid] =
                                     Append(@, [with_notice |-> FALSE, pc |-> "waiting"])]
                    /\ lastRequest' = Response(CancelOp(with_notice), sid, 200)
                    /\ UNCHANGED unit
    /\ UNCHANGED <<task, notices, lockVars, poolVars, agent, shellVars, earlier>>

\* cancel (line 268) and cancel_with_notice (line 271)
Cancel(sid, with_notice) ==
    /\ CancelCall(sid, with_notice)
    /\ UNCHANGED fanout

\* sample_status (lines 333-340)
SampleStatus(sid) ==
    /\ lastRequest' = Response("sample_status", sid,
                                IF NoSuchSession(session_map, sid) THEN 400 ELSE 200)
    /\ UNCHANGED <<task, session_map, unit, controller, cancels, notices, fanout, lockVars,
                   poolVars, agent, shellVars, earlier>>

\* the first run of a cancel_task spawned by create_task (line 306)
CancelTaskRuns(sid, i) ==
    /\ i \in 1..Len(cancels[sid])
    /\ cancels[sid][i].pc = "spawned"
    /\ IF task.full_async
       THEN /\ unit' = [unit EXCEPT ![sid] = asyncio_task_cancel(@)]
            /\ session_map' = session_map_pop(session_map, sid)
            /\ cancels' = [cancels EXCEPT ![sid][i].pc = "notify"]
       ELSE /\ cancels' = [cancels EXCEPT ![sid][i].pc = "waiting"]
            /\ UNCHANGED <<unit, session_map>>
    /\ UNCHANGED <<task, controller, notices, lastRequest, fanout, lockVars, poolVars, agent, shellVars, earlier>>

\* the task awaited at line 294 is over: cancel_task goes on to line 297
CancelTaskWakes(sid, i) ==
    /\ i \in 1..Len(cancels[sid])
    /\ cancels[sid][i].pc = "waiting"
    /\ unit[sid].pc \in {"done", "aborted"}
    /\ session_map' = session_map_pop(session_map, sid)
    /\ cancels' = [cancels EXCEPT ![sid][i].pc =
                      IF cancels[sid][i].with_notice THEN "notify" ELSE "returned"]
    /\ UNCHANGED <<task, unit, controller, notices, lastRequest, fanout, lockVars, poolVars, agent, shellVars, earlier>>

\* _call_controller('/cancel_notice') sends its request (lines 298-303)
SendNotice(sid, i) ==
    /\ i \in 1..Len(cancels[sid])
    /\ cancels[sid][i].pc = "notify"
    /\ notices' = [notices EXCEPT ![sid] = @ + 1]
    /\ cancels' = [cancels EXCEPT ![sid][i].pc = "returned"]
    /\ UNCHANGED <<task, session_map, unit, controller, lastRequest, fanout, lockVars, poolVars, agent, shellVars, earlier>>

\* ------------------------------------------------ task_start_sample_wrapper
\* the task created at line 208 runs for the first time and suspends inside
\* task.start_sample (lines 154-158)
UnitStarts(sid) ==
    /\ unit[sid].pc = "created"
    /\ ~unit[sid].must_cancel
    /\ unit' = [unit EXCEPT ![sid].pc = "sample"]
    /\ UNCHANGED <<task, session_map, controller, cancels, notices, lastRequest, fanout, lockVars,
                   poolVars, agent, shellVars, earlier>>

\* the sample returns a result: lines 182-183 up to the suspension inside env_finish
SampleReturns(sid, status) ==
    /\ unit[sid].pc = "sample"
    /\ ~unit[sid].must_cancel
    /\ status \in SampleStatuses(controller[sid])
    /\ session_map' = session_map_pop(session_map, sid)
    /\ unit' = [unit EXCEPT ![sid].pc = "deliver", ![sid].status = status]
    /\ UNCHANGED <<task, controller, cancels, notices, lastRequest, fanout, lockVars, poolVars, agent, shellVars, earlier>>

SampleRaises_Uncaught(sid) ==
    /\ unit[sid].pc = "sample"
    /\ ~unit[sid].must_cancel
    /\ unit' = [unit EXCEPT ![sid].pc = "aborted", ![sid].status = "TASK_ERROR"]
    /\ UNCHANGED <<task, session_map, controller, cancels, notices, lastRequest, fanout, lockVars,
                   poolVars, agent, shellVars, earlier>>

\* the sample raises, or returns no result (line 160): lines 171-175
SampleRaises(sid) ==
    /\ unit[sid].pc = "sample"
    /\ ~unit[sid].must_cancel
    /\ session_map' = session_map_pop(session_map, sid)
    /\ unit' = [unit EXCEPT ![sid].pc = "deliver", ![sid].status = "TASK_ERROR"]
    /\ UNCHANGED <<task, controller, cancels, notices, lastRequest, fanout, lockVars, poolVars, agent, shellVars, earlier>>

\* the requested CancelledError is thrown where the wrapper stands: before its first
\* line the wrapper ends at once; inside the try lines 161-164 run; inside an
\* env_finish, which no try encloses, it ends the wrapper
CancelledErrorThrown(sid) ==
    /\ unit[sid].must_cancel
    /\ \/ /\ unit[sid].pc = "created"
          /\ unit' = [unit EXCEPT ![sid] = [@ EXCEPT !.pc = "aborted", !.must_cancel = FALSE]]
          /\ UNCHANGED session_map
       \/ /\ unit[sid].pc = "sample"
          /\ session_map' = session_map_pop(session_map, sid)
          /\ unit' = [unit EXCEPT ![sid] =
                        [pc |-> "deliver", must_cancel |-> FALSE, status |-> "CANCELLED"]]
       \/ /\ unit[sid].pc = "deliver"
          /\ unit' = [unit EXCEPT ![sid] = [@ EXCEPT !.pc = "aborted", !.must_cancel = FALSE]]
          /\ UNCHANGED session_map
    /\ UNCHANGED <<task, controller, cancels, notices, lastRequest, fanout, lockVars, poolVars, agent, shellVars, earlier>>

\* env_finish hands the terminal result upstream and the wrapper returns
EnvFinishReturns(sid) ==
    /\ unit[sid].pc = "deliver"
    /\ ~unit[sid].must_cancel
    /\ controller' = [controller EXCEPT ![sid].finished = Append(@, unit[sid].status)]
    /\ unit' = [unit EXCEPT ![sid].pc = "done"]
    /\ UNCHANGED <<task, session_map, cancels, notices, lastRequest, fanout, lockVars, poolVars, agent, shellVars, earlier>>

\* ------------------------------------------------------------- _cancel_all
\* _cancel_all lists the keys of session_map and builds one _cancel coroutine for each
\* (lines 321-324); gather starts them and the caller waits (line 325)
CancelAll(with_notice) ==
    /\ fanout.pc = "idle"
    /\ fanout' = [pc |-> IF Running(session_map) = {} THEN "returned" ELSE "waiting",
                  with_notice |-> with_notice, sessions |-> Running(session_map),
                  todo |-> Running(session_map), failed |-> FALSE]
    /\ UNCHANGED <<task, session_map, unit, controller, cancels, notices, lastRequest, lockVars,
                   poolVars, agent, shellVars, earlier>>

\* the first run of one of the gathered _cancel coroutines; it may raise 'No such
\* session' (line 276)
GatheredCancel(sid) ==
    /\ sid \in fanout.todo
    /\ CancelCall(sid, fanout.with_notice)
    /\ fanout' = [fanout EXCEPT !.todo = @ \ {sid},
                                !.failed = @ \/ NoSuchSession(session_map, sid)]

\* the _cancel call of session sid made by gather has returned
GatheredReturned(sid) ==
    /\ sid \notin fanout.todo
    /\ \E i \in 1..Len(cancels[sid]) :
           cancels[sid][i].with_notice \/ cancels[sid][i].pc = "returned"

\* every gathered _cancel has returned: gather and _cancel_all return (line 325)
CancelAllReturns ==
    /\ fanout.pc = "waiting"
    /\ ~fanout.failed
    /\ \A sid \in fanout.sessions : GatheredReturned(sid)
    /\ fanout' = [fanout EXCEPT !.pc = "returned"]
    /\ UNCHANGED <<task, session_map, unit, controller, cancels, notices, lastRequest, lockVars,
                   poolVars, agent, shellVars, earlier>>

\* a gathered _cancel raised: gather hands its exception to _cancel_all without
\* waiting for the others, which run on; the other coroutines, scheduled before the
\* exception was, have had their first run by then
CancelAllRaises ==
    /\ fanout.pc = "waiting"
    /\ fanout.failed
    /\ fanout.todo = {}
    /\ fanout' = [fanout EXCEPT !.pc = "raised"]
    /\ UNCHANGED <<task, session_map, unit, controller, cancels, notices, lastRequest, lockVars,
                   poolVars, agent, shellVars, earlier>>

\* ------------------------------------------------------- the worker's runs
InitWorker ==
    /\ locks = [n \in LockNames |-> NoLock]
    /\ ret = FALSE
    /\ lastCall = NoCall
    /\ delegation \in Delegations
    /\ labels = FreshPool.labels
    /\ alive = FreshPool.alive
    /\ uses = FreshPool.uses
    /\ marker = FreshPool.marker
    /\ unhealthy = {}
    /\ starting = {}
    /\ records = [s \in Sessions |-> NoRecord]
    /\ sess = [s \in Sessions |-> IdleSess]
    /\ bg = [w \in Sweepers |-> IdleBg]
    /\ task \in Tasks
    /\ WorkerIdle
    /\ engine_call = NoEngineCall
    /\ agent = NoRun
    /\ ShellsAtRest

RequestNext ==
    \E sid \in SampleIds :
        \/ StartSample(sid)
        \/ Interact(sid)
        \/ TurnCompletes(sid)
        \/ \E with_notice \in BOOLEAN : Cancel(sid, with_notice)
        \/ SampleStatus(sid)

CancelTaskNext ==
    \E sid \in SampleIds, i \in 1..MaxCancels :
        \/ CancelTaskRuns(sid, i)
        \/ CancelTaskWakes(sid, i)
        \/ SendNotice(sid, i)

UnitNext ==
    \E sid \in SampleIds :
        \/ UnitStarts(sid)
        \/ \E status \in {"COMPLETED", "CANCELLED"} : SampleReturns(sid, status)
        \/ SampleRaises(sid)
        \/ CancelledErrorThrown(sid)
        \/ EnvFinishReturns(sid)

NextWorker == RequestNext \/ CancelTaskNext \/ UnitNext

SpecWorker == InitWorker /\ [][NextWorker]_vars

\* ----------------------------------------- a session id used a second time
\* start_sample (lines 190-217) for an id that an earlier sample had and that is not
\* a key of session_map now; the earlier sample's wrapper and cancel_tasks go on
\* with the session id they were given
StartSampleAgain(sid) ==
    /\ ~session_map[sid].present
    /\ ~AtCapacity(session_map, task)
    /\ unit[sid].pc # "none"
    /\ earlier[sid] = NoEarlier
    /\ earlier' = [earlier EXCEPT ![sid] = [unit |-> unit[sid], cancels |-> cancels[sid]]]
    /\ unit' = [unit EXCEPT ![sid] = [NoUnit EXCEPT !.pc = "created"]]
    /\ cancels' = [cancels EXCEPT ![sid] = <<>>]
    /\ session_map' = [session_map EXCEPT ![sid] = RunningSampleData]
    /\ controller' = [controller EXCEPT ![sid] = agent_pull(NewController, "none")]
    /\ lastRequest' = Response("start_sample", sid, 200)
    /\ UNCHANGED <<task, notices, fanout, lockVars, poolVars, agent, shellVars>>

\* the CancelledError requested for the earlier sample's wrapper is thrown where it
\* stands; inside the try it runs session_map.pop(session_id, None) (lines 161-164)
EarlierCancelledErrorThrown(sid) ==
    LET u == earlier[sid].unit IN
    /\ u.must_cancel
    /\ \/ /\ u.pc \in {"created", "deliver"}
          /\ earlier' = [earlier EXCEPT ![sid].unit =
                            [u EXCEPT !.pc = "aborted", !.must_cancel = FALSE]]
          /\ UNCHANGED session_map
       \/ /\ u.pc = "sample"
          /\ session_map' = session_map_pop(session_map, sid)
          /\ earlier' = [earlier EXCEPT ![sid].unit =
                            [pc |-> "deliver", must_cancel |-> FALSE, status |-> "CANCELLED"]]
    /\ UNCHANGED <<task, unit, controller, cancels, notices, lastRequest, fanout, lockVars,
                   poolVars, agent, shellVars>>

\* the earlier sample's env_finish returns and its wrapper ends (lines 164-188)
EarlierEnvFinishReturns(sid) ==
    /\ earlier[sid].unit.pc = "deliver"
    /\ ~earlier[sid].unit.must_cancel
    /\ earlier' = [earlier EXCEPT ![sid].unit.pc = "done"]
    /\ UNCHANGED <<task, session_map, unit, controller, cancels, notices, lastRequest, fanout,
                   lockVars, poolVars, agent, shellVars>>

\* the first run of a cancel_task that was spawned for the earlier sample (line 306):
\* it cancels the task of the entry it was called for and pops the session id
\* (lines 290-297)
EarlierCancelTaskRuns(sid, i) ==
    /\ i \in 1..Len(earlier[sid].cancels)
    /\ earlier[sid].cancels[i].pc = "spawned"
    /\ IF task.full_async
       THEN /\ earlier' = [earlier EXCEPT ![sid].unit = asyncio_task_cancel(@),
                                          ![sid].cancels[i].pc = "notify"]
            /\ session_map' = session_map_pop(session_map, sid)
       ELSE /\ earlier' = [earlier EXCEPT ![sid].cancels[i].pc = "waiting"]
            /\ UNCHANGED session_map
    /\ UNCHANGED <<task, unit, controller, cancels, notices, lastRequest, fanout, lockVars,
                   poolVars, agent, shellVars>>

\* the earlier sample's task, awaited at line 294, is over: its cancel_task pops the
\* session id (line 297)
EarlierCancelTaskWakes(sid, i) ==
    /\ i \in 1..Len(earlier[sid].cancels)
    /\ earlier[sid].cancels[i].pc = "waiting"
    /\ earlier[sid].unit.pc \in {"done", "aborted"}
    /\ session_map' = session_map_pop(session_map, sid)
    /\ earlier' = [earlier EXCEPT ![sid].cancels[i].pc =
                      IF earlier[sid].cancels[i].with_notice THEN "notify" ELSE "returned"]
    /\ UNCHANGED <<task, unit, controller, cancels, notices, lastRequest, fanout, lockVars,
                   poolVars, agent, shellVars>>

\* the earlier sample's cancel_task sends its /cancel_notice (lines 298-303)
EarlierSendNotice(sid, i) ==
    /\ i \in 1..Len(earlier[sid].cancels)
    /\ earlier[sid].cancels[i].pc = "notify"
    /\ notices' = [notices EXCEPT ![sid] = @ + 1]
    /\ earlier' = [earlier EXCEPT ![sid].cancels[i].pc = "returned"]
    /\ UNCHANGED <<task, session_map, unit, controller, cancels, lastRequest, fanout, lockVars,
                   poolVars, agent, shellVars>>

EarlierNext(sid) ==
    \/ StartSampleAgain(sid)
    \/ EarlierCancelledErrorThrown(sid)
    \/ EarlierEnvFinishReturns(sid)
    \/ \E i \in 1..MaxCancels :
          \/ EarlierCancelTaskRuns(sid, i)
          \/ EarlierCancelTaskWakes(sid, i)
          \/ EarlierSendNotice(sid, i)

\* the worker's runs when the upstream gives session id 1 to a second sample: the
\* requests are start_sample, cancel and cancel_with_notice for that id
NextReuse ==
    \/ StartSample(1)
    \/ TurnCompletes(1)
    \/ \E with_notice \in BOOLEAN : Cancel(1, with_notice)
    \/ CancelTaskNext
    \/ UnitNext
    \/ EarlierNext(1)

SpecReuse == InitWorker /\ [][NextReuse]_vars

\* the runs of one _cancel_all call among samples that start, run and end
CancelAllNext ==
    \/ \E with_notice \in BOOLEAN : CancelAll(with_notice)
    \/ \E sid \in SampleIds : GatheredCancel(sid)
    \/ CancelAllReturns
    \/ CancelAllRaises

NextCancelAll ==
    \/ \E sid \in SampleIds : StartSample(sid)
    \/ CancelAllNext
    \/ CancelTaskNext
    \/ UnitNext

SpecCancelAll == InitWorker /\ [][NextCancelAll]_vars

\* --------------------------------------------------------- the engine calls
\* the engine operations of the pool: listing, loading a container, pulling an image,
\* creating, starting and deleting a container, one-shot exec and shell exec
EngineOps == {"list", "load", "pull", "create", "start", "delete", "exec", "shell"}

\* how the code issues each operation: through _docker_call with its default
\* retry=True, through _docker_call with retry=False, or on the container object
\* without _docker_call (container.start(), line 460)
Via(op) ==
    CASE op \in {"list", "load", "pull"} -> "retry"
      [] op \in {"create", "delete", "exec", "shell"} -> "once"
      [] OTHER -> "direct"

\* max_attempts = 2 if retry else 1 (line 97)
max_attempts(via) == IF via = "retry" THEN 2 ELSE 1

ShouldRetryStatus_AnyStatus(o, attempt, max) == attempt < max - 1

\* should_retry of the DockerError handler (line 103)
ShouldRetryStatus(o, attempt, max) ==
    o.status \in _retryable_docker_statuses /\ attempt < max - 1

\* the transport handler retries unless attempt >= max_attempts - 1 (line 111)
ShouldRetryTransport(attempt, max) == ~(attempt >= max - 1)

\* _docker_call is entered (lines 96-97)
DockerCallBegin(op) ==
    /\ engine_call.pc = "idle"
    /\ Via(op) # "direct"
    /\ engine_call' = [op |-> op, via |-> Via(op), pc |-> "running", attempt |-> 0,
                       resets |-> 0, tried |-> <<>>]
    /\ UNCHANGED <<lockVars, delegation, labels, alive, unhealthy, starting, marker, uses, records, sess,
                   bg, workerVars, agent, shellVars>>

\* one pass of _docker_call's loop (lines 98-116): the operation is attempted with
\* outcome o; a retry counts the attempt and resets the client
DockerCallAttempt(o) ==
    /\ engine_call.pc = "running"
    /\ LET max == max_attempts(engine_call.via)
           again == IF o.kind = "DockerError"
                    THEN ShouldRetryStatus(o, engine_call.attempt, max)
                    ELSE ShouldRetryTransport(engine_call.attempt, max)
       IN  engine_call' =
             IF o = Ok
             THEN [engine_call EXCEPT !.pc = "returned", !.tried = Append(@, o)]
             ELSE IF again
             THEN [engine_call EXCEPT !.attempt = @ + 1, !.resets = @ + 1,
                                      !.tried = Append(@, o)]
             ELSE [engine_call EXCEPT !.pc = "raised", !.tried = Append(@, o)]
    /\ UNCHANGED <<lockVars, delegation, labels, alive, unhealthy, starting, marker, uses, records, sess,
                   bg, workerVars, agent, shellVars>>

\* an operation issued without _docker_call: its first outcome is the caller's
DirectCall(op, o) ==
    /\ engine_call.pc = "idle"
    /\ Via(op) = "direct"
    /\ engine_call' = [op |-> op, via |-> "direct",
                       pc |-> IF o = Ok THEN "returned" ELSE "raised", attempt |-> 0,
                       resets |-> 0, tried |-> <<o>>]
    /\ UNCHANGED <<lockVars, delegation, labels, alive, unhealthy, starting, marker, uses, records, sess,
                   bg, workerVars, agent, shellVars>>

\* the caller has the result or the exception
EngineCallEnds ==
    /\ engine_call.pc \in {"returned", "raised"}
    /\ engine_call' = NoEngineCall
    /\ UNCHANGED <<lockVars, delegation, labels, alive, unhealthy, starting, marker, uses, records, sess,
                   bg, workerVars, agent, shellVars>>

NextEngine ==
    \/ \E op \in EngineOps : DockerCallBegin(op)
    \/ \E o \in Outcomes : DockerCallAttempt(o)
    \/ \E op \in EngineOps, o \in Outcomes : DirectCall(op, o)
    \/ EngineCallEnds

SpecEngine == InitWorker /\ [][NextEngine]_vars

\* ------------------------------------------------------------------ Agent.run
\* what executing one tool call can give: a ToolResult with success, one without
\* (unknown tool, failed command, exception in execute), or the user declining
\* the confirmation prompt, which is shown only when confirm_all is off
ToolOutcomes(cfg) == IF cfg.confirm_all THEN {"ok", "fail"} ELSE {"ok", "fail", "refused"}

\* response.tool_calls, each call standing for the result its execution will have
ToolCallLists(cfg) == UNION {[1..n -> ToolOutcomes(cfg)] : n \in 0..MaxToolCalls}

\* Plan.parse_from_response on the response's content: no plan, a plan that needs
\* no confirmation, or a plan the user is asked about and approves or refuses
PlanOutcomes(cfg) ==
    IF cfg.confirm_all THEN {"none", "plan"} ELSE {"none", "plan", "approved", "refused"}

\* what api.chat returns: a ChatResponse, or an error string
ChatResponses(cfg) ==
    [kind : {"ChatResponse"}, plan : PlanOutcomes(cfg), tool_calls : ToolCallLists(cfg)]
        \cup {[kind |-> "error", plan |-> "none", tool_calls |-> <<>>]}

LoopContinues_Always(a) == TRUE

\* while self.state.iteration < self.config.max_iterations
LoopContinues(a) == a.state.iteration < a.config.max_iterations

\* the circuit breaker check after a response's tool calls
CircuitBreakerTriggered(a) ==
    /\ a.config.circuit_breaker
    /\ \/ a.state.consecutive_failures >= MAX_CONSECUTIVE_FAILURES
       \/ a.state.total_failures >= MAX_TOTAL_FAILURES

\* run (lines 352-363): a fresh AgentState, no plan, the planning decision taken
Run(needs_planning) ==
    /\ agent.pc = "idle"
    /\ agent' = [agent EXCEPT !.state = AgentState, !.current_plan = FALSE,
                              !.needs_planning = needs_planning, !.pc = "loop"]
    /\ UNCHANGED <<lockVars, poolVars, workerVars, shellVars>>

\* one pass of the loop up to the tool calls (lines 366-403, 427-442): the counter,
\* the call of the model, the plan, and the final response when no tool is asked for
Chat(response) ==
    /\ agent.pc = "loop"
    /\ LoopContinues(agent)
    /\ response \in ChatResponses(agent.config)
    /\ LET counted == [agent EXCEPT !.state.iteration = @ + 1, !.chats = @ + 1,
                                    !.asked = @ /\ response.tool_calls # <<>>]
           plan_found == /\ agent.needs_planning
                         /\ ~agent.current_plan
                         /\ response.plan # "none"
           planned == [counted EXCEPT !.current_plan = @ \/ plan_found]
       IN  agent' =
             IF response.kind = "error"
             THEN [counted EXCEPT !.pc = "returned", !.result = "error"]
             ELSE IF plan_found /\ response.plan = "refused"
             THEN [planned EXCEPT !.pc = "returned", !.result = "plan_cancelled"]
             ELSE IF response.tool_calls # <<>>
             THEN [planned EXCEPT !.pc = "tools", !.tool_calls = response.tool_calls]
             ELSE [planned EXCEPT !.pc = "returned", !.result = "final"]
    /\ UNCHANGED <<lockVars, poolVars, workerVars, shellVars>>

\* _handle_tool_calls, one tool call (lines 516-559) with _execute_tool (563-596):
\* a refused confirmation sets cancelled; a cancelled run leaves the loop before
\* the failure counters are touched
ExecuteTool ==
    /\ agent.pc = "tools"
    /\ agent.tool_calls # <<>>
    /\ LET result == Head(agent.tool_calls)
           cancelled == agent.state.cancelled \/ result = "refused"
       IN  agent' =
             IF cancelled
             THEN [agent EXCEPT !.state.cancelled = TRUE, !.tool_calls = <<>>]
             ELSE IF result = "ok"
             THEN [agent EXCEPT !.state.consecutive_failures = 0,
                                !.tool_calls = Tail(@)]
             ELSE [agent EXCEPT !.state.consecutive_failures = @ + 1,
                                !.state.total_failures = @ + 1,
                                !.tool_calls = Tail(@)]
    /\ UNCHANGED <<lockVars, poolVars, workerVars, shellVars>>

\* after _handle_tool_calls (lines 407-426): cancelled, circuit breaker, or loop on
ToolCallsHandled ==
    /\ agent.pc = "tools"
    /\ agent.tool_calls = <<>>
    /\ agent' =
         IF agent.state.cancelled
         THEN [agent EXCEPT !.pc = "returned", !.result = "cancelled"]
         ELSE IF CircuitBreakerTriggered(agent)
         THEN [agent EXCEPT !.pc = "returned", !.result = "circuit_breaker"]
         ELSE [agent EXCEPT !.pc = "loop"]
    /\ UNCHANGED <<lockVars, poolVars, workerVars, shellVars>>

\* the loop condition fails (lines 444-448): the 'Reached maximum iterations' message
MaxIterationsReached ==
    /\ agent.pc = "loop"
    /\ ~LoopContinues(agent)
    /\ agent' = [agent EXCEPT !.pc = "returned", !.result = "max_iterations"]
    /\ UNCHANGED <<lockVars, poolVars, workerVars, shellVars>>

\* Agent.cancel, called by the interface while run is under way
AgentCancel ==
    /\ agent.pc \in {"loop", "tools"}
    /\ ~agent.state.cancelled
    /\ agent' = [agent EXCEPT !.state.cancelled = TRUE]
    /\ UNCHANGED <<lockVars, poolVars, workerVars, shellVars>>

InitAgent ==
    /\ locks = [n \in LockNames |-> NoLock]
    /\ ret = FALSE
    /\ lastCall = NoCall
    /\ delegation \in Delegations
    /\ labels = FreshPool.labels
    /\ alive = FreshPool.alive
    /\ uses = FreshPool.uses
    /\ marker = FreshPool.marker
    /\ unhealthy = {}
    /\ starting = {}
    /\ records = [s \in Sessions |-> NoRecord]
    /\ sess = [s \in Sessions |-> IdleSess]
    /\ bg = [w \in Sweepers |-> IdleBg]
    /\ task = [concurrency |-> 1, full_async |-> FALSE]
    /\ WorkerIdle
    /\ engine_call = NoEngineCall
    /\ agent \in {NewAgent(cfg) : cfg \in AgentConfigs}
    /\ ShellsAtRest

NextAgent ==
    \/ \E needs_planning \in BOOLEAN : Run(needs_planning)
    \/ \E response \in ChatResponses(agent.config) : Chat(response)
    \/ ExecuteTool
    \/ ToolCallsHandled
    \/ MaxIterationsReached
    \/ AgentCancel

SpecAgent == InitAgent /\ [][NextAgent]_vars

\* ------------------------------------------- execute_shell and _reset_client
\* the keys of self._shells
ShellKeys == {c \in Cids : _shells[c] # 0}

\* the stream object the next exec_.start makes
NewStream == CHOOSE k \in StreamIds : streams[k].state = "none"

\* "environment_id not in self._shells" read as always true
ShellMissing_Always(c) == TRUE

\* "environment_id not in self._shells" (line 293)
ShellMissing(c) == _shells[c] = 0

\* execute_shell up to its first await (lines 293-297): with no key for the container
\* it enters create_shell, which takes the client and awaits the exec call (line
\* 273); with a key it takes the registered stream and awaits write_in
ExecuteShell(a, c) ==
    /\ shell_call[a].pc = "idle"
    /\ c \in 1..Len(labels)
    /\ shell_call' = [shell_call EXCEPT ![a] =
          IF ShellMissing(c)
          THEN [pc |-> "exec", environment_id |-> c, stream |-> 0, client |-> _client]
          ELSE [pc |-> "write", environment_id |-> c, stream |-> _shells[c], client |-> _client]]
    /\ UNCHANGED <<_shells, streams, _client, reset, deleting, depends_on>>
    /\ UNCHANGED <<lockVars, poolVars, workerVars, agent>>

\* create_shell, lines 273-280: the exec call answers, exec_.start makes the stream on
\* the client the call was given, the stream is registered and _init is awaited
CreateShellRegisters(a) ==
    LET c == shell_call[a].environment_id IN
    /\ shell_call[a].pc = "exec"
    /\ c \in alive
    /\ \E k \in StreamIds : streams[k].state = "none"
    /\ streams' = [streams EXCEPT ![NewStream] =
          [env |-> c, state |-> "open", client |-> shell_call[a].client]]
    /\ _shells' = [_shells EXCEPT ![c] = NewStream]
    /\ shell_call' = [shell_call EXCEPT ![a].pc = "init", ![a].stream = NewStream]
    /\ UNCHANGED <<_client, reset, deleting, depends_on>>
    /\ UNCHANGED <<lockVars, poolVars, workerVars, agent>>

\* create_shell, line 273: the exec call raises (no such container, engine or transport
\* error); with retry=False _docker_call raises it at once and resets nothing
CreateShellExecRaises(a) ==
    /\ shell_call[a].pc = "exec"
    /\ shell_call' = [shell_call EXCEPT ![a] = NoShellCall]
    /\ UNCHANGED <<_shells, streams, _client, reset, deleting, depends_on>>
    /\ UNCHANGED <<lockVars, poolVars, workerVars, agent>>

\* create_shell returns (lines 280-290) and execute_shell reads
\* self._shells[environment_id] (line 295): a KeyError when the key has been removed
\* meanwhile, else the registered stream, on which it awaits write_in
CreateShellReturns(a) ==
    LET c == shell_call[a].environment_id
        k == shell_call[a].stream IN
    /\ shell_call[a].pc = "init"
    /\ streams[k].state = "open"
    /\ streams[k].client = _client
    /\ shell_call' = [shell_call EXCEPT ![a] =
          IF _shells[c] = 0 THEN NoShellCall
          ELSE [@ EXCEPT !.pc = "write", !.stream = _shells[c]]]
    /\ UNCHANGED <<_shells, streams, _client, reset, deleting, depends_on>>
    /\ UNCHANGED <<lockVars, poolVars, workerVars, agent>>

\* create_shell raises after the registration (lines 280-290): _init fails, as it does
\* on a closed stream or a dropped connection, or no prompt comes within 5 seconds;
\* nothing removes the key set at line 279
CreateShellInitRaises(a) ==
    /\ shell_call[a].pc = "init"
    /\ shell_call' = [shell_call EXCEPT ![a] = NoShellCall]
    /\ UNCHANGED <<_shells, streams, _client, reset, deleting, depends_on>>
    /\ UNCHANGED <<lockVars, poolVars, workerVars, agent>>

\* execute_shell, lines 297-314: the command is written and the output read up to the
\* prompt, or one of the two raises; the call is over either way
ShellAnswers(a) ==
    /\ shell_call[a].pc = "write"
    /\ shell_call' = [shell_call EXCEPT ![a] = NoShellCall]
    /\ UNCHANGED <<_shells, streams, _client, reset, deleting, depends_on>>
    /\ UNCHANGED <<lockVars, poolVars, workerVars, agent>>

\* _docker_call retries (lines 109, 116) and _reset_client awaits the client's close
\* (lines 79-81)
ResetClient ==
    /\ reset.pc = "idle"
    /\ reset.resets < MaxResets
    /\ reset' = [reset EXCEPT !.pc = "client", !.raised = FALSE]
    /\ UNCHANGED <<_shells, streams, _client, shell_call, deleting, depends_on>>
    /\ UNCHANGED <<lockVars, poolVars, workerVars, agent>>

\* the loop of lines 85-89 takes its next value: a RuntimeError when the number of keys
\* is no longer what it was when the loop began, a stream whose close is awaited, or
\* the end of the loop and self._shells.clear() (line 90)
ResetLoop(size, visited) ==
    IF Cardinality(ShellKeys) # size
    THEN /\ reset' = [NoReset EXCEPT !.resets = reset.resets + 1, !.raised = TRUE]
         /\ _shells' = _shells
    ELSE IF ShellKeys \subseteq visited
    THEN /\ reset' = [NoReset EXCEPT !.resets = reset.resets + 1]
         /\ _shells' = [c \in Cids |-> 0]
    ELSE \E c \in ShellKeys \ visited :
         /\ reset' = [reset EXCEPT !.pc = "stream", !.size = size,
                                   !.visited = visited \cup {c}, !.stream = _shells[c]]
         /\ _shells' = _shells

\* _reset_client, lines 82-86: the client is closed (an error is logged only) and
\* dropped, and the loop over self._shells.values() begins
ResetClientClosed ==
    /\ reset.pc = "client"
    /\ _client' = _client + 1
    /\ ResetLoop(Cardinality(ShellKeys), {})
    /\ UNCHANGED <<streams, shell_call, deleting, depends_on>>
    /\ UNCHANGED <<lockVars, poolVars, workerVars, agent>>

\* what stream.close() leaves: the stream closed, or an exception that is swallowed
\* (lines 88-89, 500-503)
StreamClose(k, closed) ==
    [streams EXCEPT ![k].state = IF closed THEN "closed" ELSE "broken"]

\* _reset_client, lines 86-90: the close of one stream is over, the loop goes on
ResetStreamClosed(closed) ==
    /\ reset.pc = "stream"
    /\ streams' = StreamClose(reset.stream, closed)
    /\ ResetLoop(reset.size, reset.visited)
    /\ UNCHANGED <<_client, shell_call, deleting, depends_on>>
    /\ UNCHANGED <<lockVars, poolVars, workerVars, agent>>

\* ----------------------------------------------------------- delete_container
\* one call of delete_container on the recursion's stack: the id it was given, whether
\* the container could be loaded, the dependencies it has still to delete, and the
\* stream it took out of self._shells
NewFrame(c) == [id |-> c, loaded |-> FALSE, deps |-> {}, stream |-> 0]

\* a dependency label that is not read
Dependencies_None(c) == {}

\* labels.get(LABEL_DEPENDS_ON), split at the commas (lines 508-512)
Dependencies(c) == depends_on[c]

\* lines 504-520 of the call on top of the stack: it calls delete_container for its next
\* dependency (line 513), or, with none left, awaits the engine's removal (line 520)
Descend(stack) ==
    LET n == Len(stack)
        top == stack[n]
    IN  IF top.deps = {}
        THEN [pc |-> "delete", stack |-> stack]
        ELSE LET dep == CHOOSE x \in top.deps : \A y \in top.deps : x <= y
             IN  [pc |-> "load",
                  stack |-> Append([stack EXCEPT ![n].deps = @ \ {dep}], NewFrame(dep))]

\* delete_container(id) up to the await of _load_container (line 491)
DeleteContainer(c) ==
    /\ deleting.pc = "idle"
    /\ c \in 1..Len(labels)
    /\ deleting' = [pc |-> "load", stack |-> <<NewFrame(c)>>, gone |-> {}]
    /\ UNCHANGED <<_shells, streams, _client, shell_call, reset, depends_on>>
    /\ UNCHANGED <<lockVars, poolVars, workerVars, agent>>

\* lines 491-513: the container is loaded, or the engine answers that there is none
\* (DockerError, line 492) and no label is known; the stream is taken out of
\* self._shells (line 497) and its close awaited, or the call goes on without one
DeleteLoaded ==
    LET n == Len(deleting.stack)
        c == deleting.stack[n].id
        loaded == c \in alive
        frame == [id |-> c, loaded |-> loaded,
                  deps |-> IF loaded THEN Dependencies(c) ELSE {},
                  stream |-> _shells[c]]
        stack == [deleting.stack EXCEPT ![n] = frame]
    IN  /\ deleting.pc = "load"
        /\ _shells' = [_shells EXCEPT ![c] = 0]
        /\ deleting' = IF _shells[c] # 0
                       THEN [deleting EXCEPT !.pc = "close", !.stack = stack]
                       ELSE [deleting EXCEPT !.pc = Descend(stack).pc,
                                             !.stack = Descend(stack).stack]
        /\ UNCHANGED <<streams, _client, shell_call, reset, depends_on>>
        /\ UNCHANGED <<lockVars, poolVars, workerVars, agent>>

\* lines 499-513: the stream's close is over, an exception of it swallowed
DeleteShellClosed(closed) ==
    LET n == Len(deleting.stack) IN
    /\ deleting.pc = "close"
    /\ streams' = StreamClose(deleting.stack[n].stream, closed)
    /\ deleting' = [deleting EXCEPT !.pc = Descend(deleting.stack).pc,
                                    !.stack = Descend(deleting.stack).stack]
    /\ UNCHANGED <<_shells, _client, shell_call, reset, depends_on>>
    /\ UNCHANGED <<lockVars, poolVars, workerVars, agent>>

\* lines 519-526: the engine force-removes the container
DeleteEngineRemoves ==
    LET c == deleting.stack[Len(deleting.stack)].id IN
    /\ deleting.pc = "delete"
    /\ c \in alive
    /\ EngineDelete(c)
    /\ deleting' = [deleting EXCEPT !.pc = "purge"]
    /\ UNCHANGED <<delegation, labels, marker, uses, records, sess, bg, engine_call>>
    /\ UNCHANGED <<_shells, streams, _client, shell_call, reset, depends_on>>
    /\ UNCHANGED <<lockVars, workerVars, agent>>

\* lines 519-526: the engine answers that there is no such container; the DockerError
\* is swallowed (lines 521-522)
DeleteEngineGone ==
    LET c == deleting.stack[Len(deleting.stack)].id IN
    /\ deleting.pc = "delete"
    /\ c \notin alive
    /\ deleting' = [deleting EXCEPT !.pc = "purge", !.gone = @ \cup {c}]
    /\ UNCHANGED <<_shells, streams, _client, shell_call, reset, depends_on>>
    /\ UNCHANGED <<lockVars, poolVars, workerVars, agent>>

\* lines 526-527: remove_container has deleted the container's keys and this call
\* returns, to the loop of the call that made it (lines 510-513) if there is one
DeletePurged ==
    LET n == Len(deleting.stack)
        c == deleting.stack[n].id
        rest == SubSeq(deleting.stack, 1, n - 1)
    IN  /\ deleting.pc = "purge"
        /\ marker' = RemoveMarkers(marker, c)
        /\ uses' = RemoveUses(uses, c)
        /\ deleting' = IF n = 1
                       THEN [deleting EXCEPT !.pc = "idle", !.stack = <<>>]
                       ELSE [deleting EXCEPT !.pc = Descend(rest).pc,
                                             !.stack = Descend(rest).stack]
        /\ UNCHANGED <<delegation, labels, alive, unhealthy, starting, records, sess, bg,
                       engine_call>>
        /\ UNCHANGED <<_shells, streams, _client, shell_call, reset, depends_on>>
        /\ UNCHANGED <<lockVars, workerVars, agent>>

\* ------------------------------------------------ the controller's shells' runs
\* three containers that sessions have used, with the allocation keys of a session
\* that was never ended
ShellPool ==
    [labels |-> <<[subtype |-> "web", exclusive |-> FALSE], [subtype |-> "db", exclusive |-> TRUE],
                  [subtype |-> "db", exclusive |-> TRUE]>>,
     alive |-> {1, 2, 3},
     uses |-> [c \in Cids |-> 1],
     marker |-> {<<c, ForeignSession>> : c \in Cids}]

\* the dependency labels of the three: none, 1 on 2, 1 on 2 and 2 on 3, 1 on 2 and 3
DependencyLabels ==
    {[c \in Cids |-> {}],
     [c \in Cids |-> IF c = 1 THEN {2} ELSE {}],
     [c \in Cids |-> IF c = 1 THEN {2} ELSE IF c = 2 THEN {3} ELSE {}],
     [c \in Cids |-> IF c = 1 THEN {2, 3} ELSE {}]}

InitShell(dependencies) ==
    /\ locks = [n \in LockNames |-> NoLock]
    /\ ret = FALSE
    /\ lastCall = NoCall
    /\ delegation \in Delegations
    /\ labels = ShellPool.labels
    /\ alive = ShellPool.alive
    /\ uses = ShellPool.uses
    /\ marker = ShellPool.marker
    /\ unhealthy = {}
    /\ starting = {}
    /\ records = [s \in Sessions |-> NoRecord]
    /\ sess = [s \in Sessions |-> IdleSess]
    /\ bg = [w \in Sweepers |-> IdleBg]
    /\ WorkerAtRest
    /\ engine_call = NoEngineCall
    /\ agent = NoRun
    /\ _shells = [c \in Cids |-> 0]
    /\ streams = [k \in StreamIds |-> NoStream]
    /\ _client = 0
    /\ shell_call = [a \in Callers |-> NoShellCall]
    /\ reset = NoReset
    /\ deleting = NoDelete
    /\ depends_on \in dependencies

ExecuteShellNext(a) ==
    \/ \E c \in Cids : ExecuteShell(a, c)
    \/ CreateShellRegisters(a)
    \/ CreateShellExecRaises(a)
    \/ CreateShellReturns(a)
    \/ CreateShellInitRaises(a)
    \/ ShellAnswers(a)

ResetClientNext ==
    \/ ResetClient
    \/ ResetClientClosed
    \/ \E closed \in BOOLEAN : ResetStreamClosed(closed)

DeleteContainerNext ==
    \/ \E c \in Cids : DeleteContainer(c)
    \/ DeleteLoaded
    \/ \E closed \in BOOLEAN : DeleteShellClosed(closed)
    \/ DeleteEngineRemoves
    \/ DeleteEngineGone
    \/ DeletePurged

\* execute_shell calls that overlap with each other and with a reset of the client
NextShell == (\E a \in Callers : ExecuteShellNext(a)) \/ ResetClientNext

SpecShell == InitShell({[c \in Cids |-> {}]}) /\ [][NextShell]_vars

\* delete_container calls, one at a time, among the execute_shell calls of one caller
NextDelete == DeleteContainerNext \/ ExecuteShellNext(1)

SpecDelete == InitShell(DependencyLabels) /\ [][NextDelete]_vars

\* ================================================================== claims
SharedContainers == {c \in 1..Len(labels) : ~labels[c].exclusive}
ExclusiveContainers == {c \in 1..Len(labels) : labels[c].exclusive}

\* the sessions whose container map (containers_allocated) holds container c
HoldersOf(c) == {s \in Sessions : \E p \in sess[s].allocated : p[2] = c}

\* session s is inside the decide-and-allocate step of start_session (lines 162-172)
InDecideAllocate(s) ==
    sess[s].pc \in {"scan_total", "scan_current", "shared_set", "shared_incr"}

\* start_session of s has allocated its shared container and has not returned yet
SharedAllocated(s) ==
    /\ sess[s].pc \in {"store", "wait"}
    /\ sess[s].exclusive = <<>>

\* C1: every non-exclusive container of a subtype with concurrency_limit N > 0 has at
\* most N live allocation markers, in every reachable state.
C1_ConcurrencyLimit ==
    \A c \in SharedContainers :
        LET N == get_concurrency_limit(labels[c].subtype)
        IN N > 0 => container_current_uses(marker, c) <= N

C3_ReuseLimit ==
    \A c \in SharedContainers :
        LET R == get_reuse_limit(labels[c].subtype)
        IN R > 0 => container_total_uses(uses, c) <= R

\* C4: no delete_container call removes a container from the engine while a live
\* allocation marker for that container is in the store: not the sweep's, and not
\* end_session's, where the marker of the session that is ending is not counted.
C4_NoDeleteWhileAllocated ==
    [][/\ \A w \in Workers :
            (bg[w].pc = "delete" /\ bg'[w].pc = "remove" /\ bg[w].cur \in alive)
                => ~container_is_allocated(marker, bg[w].cur)
       /\ \A s \in Sessions :
            (sess[s].pc = "end_delete" /\ sess'[s].pc = "end_remove"
                /\ Head(sess[s].endExcl) \in alive)
                => ~container_is_allocated(marker \ {<<Head(sess[s].endExcl), s>>},
                                           Head(sess[s].endExcl))]_vars

\* C5: no two sessions are inside the decide-and-allocate step for the same subtype at
\* the same time.
C5_Serialized ==
    \A s1, s2 \in Sessions :
        (s1 # s2 /\ InDecideAllocate(s1) /\ InDecideAllocate(s2))
            => Head(sess[s1].sharedTodo) # Head(sess[s2].sharedTodo)

\* C6: two start_session calls for the shared subtype "web" (concurrency_limit 2) that
\* run at the same time are allocated the same container.
C6_SameContainer ==
    \A s1, s2 \in Sessions :
        (s1 # s2 /\ SharedAllocated(s1) /\ SharedAllocated(s2)
            /\ get_concurrency_limit("web") = 2)
            => sess[s1].allocated = sess[s2].allocated

ExhaustedIdle(c) ==
    /\ c \in alive
    /\ ~labels[c].exclusive
    /\ get_reuse_limit(labels[c].subtype) > 0
    /\ container_total_uses(uses, c) >= get_reuse_limit(labels[c].subtype)
    /\ ~container_is_allocated(marker, c)

C11_CrashedLockIsTakenOver ==
    \A n \in LockNames :
        (locks[n].holder = CrashedToken) ~> (locks[n].holder \in LiveTokens)

\* C11 witness: the first acquire_lock a live client makes after the crashed holder's key
\* has expired returns true and makes it the holder
C11_Witness ==
    /\ lastCall.op = "acquire"
    /\ lastCall.token \in LiveTokens
    /\ lastCall.before[lastCall.name] = NoLock
    /\ ret
    /\ locks[lastCall.name].holder = lastCall.token

\* the container ids listed in a session record's exclusive_containers
ExclusiveListed(rec) ==
    {rec.exclusive_containers[i] : i \in 1..Len(rec.exclusive_containers)}

InRepeatedEnd(s) ==
    /\ sess[s].ends >= 1
    /\ sess[s].pc \in {"end_lock", "end_release", "end_unlock", "end_delete", "end_remove",
                        "end_record"}

\* C13: a call of end_session(s) made after an earlier end_session(s) has returned finds
\* the session record absent, and none of its steps changes an allocation marker, a
\* lifetime counter, a container or a session record.
C13_EndSessionIdempotent ==
    [][\A s \in Sessions :
          /\ InRepeatedEnd(s) => ~sess[s].found
          /\ (InRepeatedEnd(s) /\ sess'[s] # sess[s]) =>
                UNCHANGED <<marker, uses, labels, alive, records>>]_vars

\* C13 witness: the second end_session of a session that held containers has returned
C13_Witness ==
    \E s \in Sessions :
        /\ sess[s].pc = "ended"
        /\ sess[s].ends = 2
        /\ sess[s].allocated # {}

\* C14: for a non-exclusive container of its record, end_session(s) removes the marker
\* of session s, and only that, while s holds the lock 'allocation:<subtype>'; the
\* container, its lifetime counter and the other sessions' markers stay; and the session
\* record is deleted only when no release and no deletion is left to do.
C14_ReleaseUnderLock ==
    [][\A s \in Sessions :
          /\ (sess[s].pc = "end_release" /\ sess'[s].pc # "end_release") =>
                LET st == Head(sess[s].endShared)[1]
                    c == Head(sess[s].endShared)[2]
                IN /\ locks[AllocationLock(st)].holder = s
                   /\ ~labels[c].exclusive
                   /\ marker' = marker \ {<<c, s>>}
                   /\ UNCHANGED <<labels, alive, uses>>
          /\ (sess[s].pc = "end_record" /\ sess'[s].pc = "ended") =>
                /\ sess[s].endShared = <<>>
                /\ sess[s].endExcl = <<>>]_vars

\* C15: start_sample rejects a session id that is already a key of session_map with
\* 400 and, for a new id, rejects with 406 when session_map already holds
\* task.concurrency entries; a rejected call adds, changes and queues nothing, an
\* accepted one adds exactly its own entry; so session_map never holds more than
\* task.concurrency entries, whatever cancels and sample completions interleave.
C15_StartSampleBounded ==
    /\ [](Cardinality(Running(session_map)) <= task.concurrency)
    /\ [][(lastRequest' # lastRequest /\ lastRequest'.op = "start_sample") =>
            LET sid == lastRequest'.sid IN
            IF session_map[sid].present
            THEN /\ lastRequest'.code = 400
                 /\ UNCHANGED <<session_map, unit, controller, cancels, notices>>
            ELSE IF Cardinality(Running(session_map)) >= task.concurrency
            THEN /\ lastRequest'.code = 406
                 /\ UNCHANGED <<session_map, unit, controller, cancels, notices>>
            ELSE /\ lastRequest'.code = 200
                 /\ session_map' = [session_map EXCEPT ![sid] = RunningSampleData]]_vars

\* a new session id was refused with 406 at a full session_map after an entry had
\* been removed and another added
C15_Witness ==
    /\ lastRequest.op = "start_sample"
    /\ lastRequest.code = 406
    /\ ~session_map[lastRequest.sid].present
    /\ Cardinality(Running(session_map)) = task.concurrency
    /\ \E sid \in SampleIds : unit[sid].pc \in {"deliver", "done", "aborted"}

\* C16: a session has at most one agent turn in flight: an interact that arrives
\* while an earlier interact, or the initial pull of start_sample, has not
\* returned is answered 400 in the step that handles it; its pull is neither
\* started nor queued and nothing of the worker changes.
C16_OneTurnInFlight ==
    /\ [](\A sid \in SampleIds : controller[sid].pulls <= 1)
    /\ [][(/\ lastRequest' # lastRequest
           /\ lastRequest'.op = "interact"
           /\ controller[lastRequest'.sid].pulls > 0) =>
            /\ lastRequest'.code = 400
            /\ UNCHANGED <<session_map, unit, controller, cancels, notices>>]_vars

\* an interact was refused while the turn of an earlier interact of the same running,
\* uncancelled session was pending
C16_Witness ==
    /\ lastRequest.op = "interact"
    /\ lastRequest.code = 400
    /\ session_map[lastRequest.sid].present
    /\ ~session_map[lastRequest.sid].cancelling
    /\ controller[lastRequest.sid].pulls = 1
    /\ controller[lastRequest.sid].env_input = "normal"

\* C17: whenever the background unit of a sample has ended, by returning, by raising
\* or by being cancelled at any point (before its first line, inside the sample, or
\* while it hands over its result), the session is no longer in session_map and
\* exactly one terminal result has been delivered to env_finish.
C17_UnitEndReportsOnce ==
    \A sid \in SampleIds :
        unit[sid].pc \in {"done", "aborted"} =>
            /\ ~session_map[sid].present
            /\ Len(controller[sid].finished) = 1

\* a plain cancel of session sid was accepted and has returned
PlainCancelReturned(sid) ==
    \E i \in 1..Len(cancels[sid]) :
        ~cancels[sid][i].with_notice /\ cancels[sid][i].pc = "returned"

\* C18: when cancel(sid) is called on a session that start_sample has just started,
\* then once cancel has returned the session is not listed by get_sessions, no
\* terminal status other than CANCELLED is reported upstream for it, and when its
\* background unit is over CANCELLED has been reported.
C18_CancelReportsCancelled ==
    \A sid \in SampleIds :
        PlainCancelReturned(sid) =>
            /\ ~session_map[sid].present
            /\ \A k \in 1..Len(controller[sid].finished) :
                   controller[sid].finished[k] = "CANCELLED"
            /\ unit[sid].pc \in {"done", "aborted"} =>
                   controller[sid].finished = <<"CANCELLED">>

\* C19: a plain cancel returns only after the session's background unit is over
\* and its terminal result has been reported, whether the task is full_async or not.
C19_PlainCancelWaits ==
    [][\A sid \in SampleIds :
         (PlainCancelReturned(sid)' /\ ~PlainCancelReturned(sid)) =>
             /\ unit'[sid].pc \in {"done", "aborted"}
             /\ controller'[sid].finished # <<>>]_vars

\* the step at which cancel_task sends /cancel_notice for session sid
NoticeSent(sid) == notices'[sid] # notices[sid]

\* C20: cancel_with_notice returns in the step that handles it, with cancel_task
\* only spawned, and /cancel_notice is sent only when the background unit is over
\* (its teardown included) and the session is out of session_map.
C20_NoticeAfterTeardown ==
    [][\A sid \in SampleIds :
         /\ (Len(cancels'[sid]) > Len(cancels[sid]) /\ cancels'[sid][Len(cancels'[sid])].with_notice) =>
                /\ cancels'[sid][Len(cancels'[sid])].pc = "spawned"
                /\ lastRequest' = Response("cancel_with_notice", sid, 200)
                /\ notices' = notices
         /\ NoticeSent(sid) =>
                /\ unit[sid].pc \in {"done", "aborted"}
                /\ ~session_map[sid].present]_vars

Transient(o) ==
    \/ o.kind = "DockerError" /\ o.status \in _retryable_docker_statuses
    \/ o \in TransportErrors

\* C22: with retry enabled, _docker_call attempts the operation at most twice over
\* any mix of faults and resets the client at most once; one transient fault is
\* followed by exactly one reset and a second attempt, whose success is the
\* call's result and whose failure is raised; a non-retryable engine error is
\* raised on its first occurrence with no reset.
C22_DockerCallRetry ==
    engine_call.via = "retry" =>
        LET t == engine_call.tried IN
        /\ Len(t) <= 2
        /\ engine_call.attempt = engine_call.resets
        /\ (Len(t) = 1 /\ Transient(t[1])) =>
               engine_call.pc = "running" /\ engine_call.resets = 1
        /\ (Len(t) = 2 /\ t[2] = Ok) =>
               engine_call.pc = "returned" /\ engine_call.resets = 1 /\ Transient(t[1])
        /\ (Len(t) = 2 /\ t[2] # Ok) =>
               engine_call.pc = "raised" /\ engine_call.resets = 1
        /\ (Len(t) >= 1 /\ ~Transient(t[1]) /\ t[1] # Ok) =>
               engine_call.pc = "raised" /\ Len(t) = 1 /\ engine_call.resets = 0

\* a listing failed with status 503, the client was reset once and the second
\* attempt's result was returned
C22_Witness ==
    /\ engine_call.via = "retry"
    /\ engine_call.tried = <<[kind |-> "DockerError", status |-> 503], Ok>>
    /\ engine_call.pc = "returned"
    /\ engine_call.resets = 1

\* C23: every engine operation of the pool, container create, start and delete,
\* one-shot exec and shell exec included, is attempted again after a first
\* transient fault instead of ending with that fault.
C23_FirstTransientFaultRetried ==
    (engine_call.op \in EngineOps /\ Len(engine_call.tried) = 1
        /\ Transient(engine_call.tried[1])) =>
            engine_call.pc = "running"

\* worker w is inside _clean_containers
Sweeping(w) == bg[w].pc \notin {"sleep", "release"}

\* C24: a worker process is inside the sweep only while the store's lock
\* 'background' is held with its client id, however long the sweep takes; hence at
\* most one process sweeps at a time.
C24_OneSweeper ==
    /\ \A w \in Sweepers : Sweeping(w) => locks[BackgroundLock].holder = ClientId(w)
    /\ Cardinality({w \in Sweepers : Sweeping(w)}) <= 1

\* an iteration's last step: the one that takes background_task back to its sleep
IterationEnds(w) == bg[w].pc # "sleep" /\ bg'[w].pc = "sleep"

\* C25: an iteration of background_task that acquired 'background' leaves the sweep
\* only towards release_lock, whether the sweep finished or raised; release_lock
\* deletes the key only if this process is still its holder; after it, and after
\* any exception of the sweep, of acquire_lock or of release_lock, the loop is
\* back at its sleep, from where it tries again.
C25_SweepAlwaysReleases ==
    /\ [](\A w \in Sweepers : bg[w].pc = "sleep" => ENABLED BackgroundAcquire(w))
    /\ [][\A w \in Sweepers :
            /\ (Sweeping(w) /\ ~Sweeping(w)') => bg'[w].pc = "release"
            /\ IterationEnds(w) =>
                   /\ bg[w].pc = "release"
                   /\ locks' \in {locks, ReleaseLockScript(locks, BackgroundLock, ClientId(w))}
                   /\ locks[BackgroundLock].holder # ClientId(w) => locks' = locks]_vars

\* an iteration whose sweep raised on its way has released the lock and sleeps, while
\* another process holds the lock
C25_Witness ==
    \E w \in Sweepers, o \in Sweepers :
        /\ bg[w].pc = "sleep"
        /\ bg[w].phase # "none"
        /\ bg[w].todo # {}
        /\ Sweeping(o)
        /\ locks[BackgroundLock].holder = ClientId(o)

\* C26: while a shared container exists in the engine its lifetime-use counter never
\* goes down: a step raises it by at most one, a step that only removes markers
\* (release_container, marker expiry) or renews them leaves it as it is, and the
\* counter is purged only for a container that is gone from the engine.
C26_UsesNeverDecrease ==
    [][\A c \in 1..Len(labels) :
         (~labels[c].exclusive /\ c \in alive') =>
             /\ uses'[c] \in {uses[c], uses[c] + 1}
             /\ (marker' # marker) => uses'[c] = uses[c]]_vars

\* C27: interact, cancel, cancel_with_notice and sample_status called with a session
\* id that is not a key of session_map are answered 400 and change nothing of the
\* worker: no entry, no background unit and no controller is created for the id.
C27_UnknownSessionRejected ==
    [][(/\ lastRequest' # lastRequest
        /\ lastRequest'.op \in {"interact", "cancel", "cancel_with_notice", "sample_status"}
        /\ ~session_map[lastRequest'.sid].present) =>
            /\ lastRequest'.code = 400
            /\ UNCHANGED <<session_map, unit, controller, cancels, notices>>]_vars

\* an interact named a session that had run and ended, and was refused
C27_Witness ==
    /\ lastRequest.op = "interact"
    /\ lastRequest.code = 400
    /\ ~session_map[lastRequest.sid].present
    /\ unit[lastRequest.sid].pc = "done"
    /\ controller[lastRequest.sid].pulls = 0

\* C28: when a plain cancel_all is over, none of the sessions that were in
\* session_map when it was called is still there, also when one of them ended on
\* its own before its _cancel ran.
C28_CancelAllLeavesNone ==
    (fanout.pc \in {"returned", "raised"} /\ ~fanout.with_notice) =>
        \A sid \in fanout.sessions : ~session_map[sid].present

\* C9: acquire_lock(name, token, ttl) is one atomic step. Unheld lock: it returns true
\* and token becomes the holder with the given ttl. Held by the same token: it returns
\* true, the holder stays and the ttl is set anew. Held by another token: it returns
\* false and holder and ttl stay as they were. No other lock changes.
C9_AcquireContract ==
    lastCall.op = "acquire" =>
        LET n == lastCall.name
            t == lastCall.token
            b == lastCall.before
        IN IF b[n].holder = NoToken \/ b[n].holder = t
           THEN /\ ret
                /\ locks = [b EXCEPT ![n] = [holder |-> t, ttl |-> lastCall.ttl]]
           ELSE /\ ~ret
                /\ locks = b

\* C9 witness: the holder acquires its own lock again after it has aged, and the ttl is
\* back at the requested value
C9_Witness ==
    /\ lastCall.op = "acquire"
    /\ lastCall.before[lastCall.name].holder = lastCall.token
    /\ lastCall.before[lastCall.name].ttl < lastCall.ttl
    /\ locks[lastCall.name] = [holder |-> lastCall.token, ttl |-> lastCall.ttl]
    /\ ret

\* C10: release_lock(name, token) deletes the lock only when token is its holder; when
\* the lock is held by another token or is unheld nothing changes.
C10_ReleaseContract ==
    lastCall.op = "release" =>
        LET n == lastCall.name
            b == lastCall.before
        IN IF b[n].holder = lastCall.token
           THEN locks = [b EXCEPT ![n] = NoLock]
           ELSE locks = b

\* C10 witness: a token releases a lock that another token holds, and the lock is still
\* held by that other token
C10_Witness ==
    /\ lastCall.op = "release"
    /\ lastCall.before[lastCall.name].holder \notin {NoToken, lastCall.token}
    /\ locks[lastCall.name].holder = lastCall.before[lastCall.name].holder

\* C29 (as amended): Agent.run calls the model at most max_iterations times (never
\* when max_iterations is below one). A run in which every response asked for
\* tool calls, which met no API error, no refused plan and no cancellation, and
\* whose circuit breaker was off or below its thresholds, ends with the
\* 'maximum iterations' message, state.iteration being max_iterations.
RunCutShort(a) ==
    \/ a.result \in {"error", "plan_cancelled"}
    \/ a.state.cancelled
    \/ CircuitBreakerTriggered(a)

C29_RunBounded ==
    /\ agent.chats = agent.state.iteration
    /\ agent.config.max_iterations >= 0 => agent.chats <= agent.config.max_iterations
    /\ agent.config.max_iterations < 0 => agent.chats = 0
    /\ (/\ agent.pc = "returned"
        /\ agent.asked
        /\ agent.config.max_iterations >= 0
        /\ ~RunCutShort(agent)) =>
            /\ agent.result = "max_iterations"
            /\ agent.state.iteration = agent.config.max_iterations

C29_Witness ==
    /\ agent.pc = "returned"
    /\ agent.result = "max_iterations"
    /\ agent.asked
    /\ ~RunCutShort(agent)
    /\ agent.config.max_iterations >= 2
    /\ agent.chats = agent.config.max_iterations
    /\ agent.state.total_failures > 0

\* C29 as stated, for a max_iterations that is not negative: whenever the model
\* asked for tool calls in every response, run ends at max_iterations with the
\* 'maximum iterations' message
C29_RunStopsAtMaxIterations ==
    (/\ agent.pc = "returned"
     /\ agent.asked
     /\ agent.config.max_iterations >= 0) =>
        /\ agent.result = "max_iterations"
        /\ agent.state.iteration = agent.config.max_iterations

\* C30: the allocation loop of start_session creates at most one container for a
\* shared subtype: the container it has just created qualifies at the next scan
\* and is allocated, whatever other sessions do meanwhile.
C30_OneContainerPerSubtype ==
    \A s \in Sessions : Cardinality(sess[s].created) <= 1

SweepDecides(w) == bg[w].pc # "delete" /\ bg'[w].pc = "delete"

C33_AllocatesLiveContainers ==
    [][\A s \in Sessions :
        /\ \A c \in Cids :
              (<<c, s>> \in marker' \ marker) => c \in alive
        /\ (sess[s].pc = "store" /\ sess'[s].pc = "wait") =>
              \A p \in sess[s].allocated : p[2] \in alive
        /\ (sess[s].pc = "wait" /\ sess'[s].pc = "active") =>
              \A p \in sess[s].allocated : p[2] \in alive]_vars

\* C35: a shell stream is created and registered for a container only when none is
\* registered for it, also when execute_shell calls for the container overlap
C35_OneShellPerContainer ==
    [][\A c \in Cids :
          (_shells'[c] # 0 /\ _shells'[c] # _shells[c]) => _shells[c] = 0]_vars

\* C36: once a reset of the client is over, an execute_shell call that takes a stream
\* from the registry never gets one that was opened on a dropped client
C36_ResetClosesShells ==
    [][\A a \in Callers :
          (/\ shell_call[a].pc # "write"
           /\ shell_call'[a].pc = "write"
           /\ reset.pc = "idle")
          => streams[shell_call'[a].stream].client = _client]_vars

C37_CancelledSessionRefusesInteract ==
    [][\A sid \in SampleIds :
          (Len(cancels[sid]) > 0 /\ session_map[sid].present)
          => /\ controller'[sid].pulls <= controller[sid].pulls
             /\ (lastRequest'.op = "interact" /\ lastRequest'.sid = sid)
                  => lastRequest'.code = 400]_vars

\* an interact was refused for a session that is being cancelled and has no turn in
\* flight
C37_Witness ==
    \E sid \in SampleIds :
        /\ Len(cancels[sid]) > 0
        /\ session_map[sid].present
        /\ session_map[sid].cancelling
        /\ ~controller[sid].agent_lock
        /\ lastRequest = Response("interact", sid, 400)

\* C38: a key of session_map is removed by the wrapper or a cancel_task of the sample
\* it was set for, never by those of an earlier sample of the same id, and a sample
\* whose wrapper has neither finished nor been cancelled is a key of session_map
C38_EntryRemovedByItsSample ==
    [][\A sid \in SampleIds :
          /\ (session_map[sid].present /\ ~session_map'[sid].present)
                => earlier'[sid] = earlier[sid]
          /\ (unit'[sid].pc \in {"created", "sample"} /\ ~unit'[sid].must_cancel)
                => session_map'[sid].present]_vars

\* C39: a start_session call that raises after an allocation stores no record and
\* releases and deletes nothing; the allocation keys it has set are removed by the
\* expiry of their TTL only, and none of its containers leaves the engine before
C39_RaisedCallKeepsAllocations ==
    [][\A s \in Sessions :
          /\ (sess[s].pc # "raised" /\ sess'[s].pc = "raised")
                => /\ ~records'[s].present
                   /\ marker' = marker
                   /\ uses' = uses
                   /\ alive' = alive
          /\ sess[s].pc = "raised"
                => /\ ~records'[s].present
                   /\ \A c \in Cids :
                         (<<c, s>> \in marker /\ <<c, s>> \notin marker')
                         => /\ alive' = alive
                            /\ uses' = uses
                            /\ bg' = bg
                   /\ \A c \in alive \ alive' : <<c, s>> \notin marker]_vars

====
